---- MODULE Spec2Model ----
(***************************************************************************)
(* Model of the video-nft SDK: the bitrate planner (getDesiredBitrate,     *)
(* makeProfile, checkNftNormalize), the task poller (waitTask), the        *)
(* minting pipeline (FullMinter.createNft, Uploader.useFile, Web3.mintNft) *)
(* and two waitTask calls that run interleaved.                            *)
(*                                                                         *)
(* Sizes and bitrates are integers below 2^31.  getDesiredBitrate's        *)
(* product with the quotient sizeLimit / size is computed as binary64      *)
(* computes it (Quotient64, MulFloor64).  makeProfile's comparison of the  *)
(* reference height with 720 is the comparison of the exact values         *)
(* (FracGreater).                                                          *)
(***************************************************************************)
EXTENDS Integers, Sequences, FiniteSets, TLC

(***************************************************************************)
(* State.                                                                  *)
(***************************************************************************)

VARIABLES
    inAsset,        \* planner: the asset argument
    inSizeLimit,    \* planner: the sizeLimit argument (Undef: not passed)
    inMinBitrate,   \* planner: the minBitrate argument (Undef: not passed)
    bitrateRes,     \* planner: the outcome of the last getDesiredBitrate call
    profileRes,     \* planner: the profile the last makeProfile call returned
    checkRes,       \* planner: the outcome of the last checkNftNormalize call
    pc,             \* poller: "idle", "getTask" (awaiting the response), "done"
    task,           \* poller: the local variable task
    hasCallback,    \* poller: whether reportProgress was passed
    lastProgress,   \* poller: the local variable lastProgress
    reported,       \* poller: the values passed to reportProgress, in order
    getTaskCalls,   \* poller: the number of getTask requests issued
    sleepsStarted,  \* poller: the number of poll timers created
    sleepsElapsed,  \* poller: the number of poll timers that have fired
    result,         \* poller: what waitTask returned or threw
    observed,       \* poller: the task states waitTask has seen, in order
    proc,           \* pipeline: the operation running ("none" before, "done" after)
    stage,          \* pipeline: the await the operation is suspended at
    isBrowser,      \* pipeline: typeof window !== 'undefined'
    web3,           \* pipeline: the fields ethProvider and chainId of Web3
    netChain,       \* pipeline: the chain ID of the network the provider is on
    args,           \* pipeline: the arguments of createNft
    stream,         \* pipeline: the fs.ReadStream opened from the file path
    uploadTask,     \* pipeline: the task received with the upload URL
    curAsset,       \* pipeline: the local variable asset of createNft
    exportIpfs,     \* pipeline: output.export.ipfs of the export task
    trace,          \* pipeline: the requests issued and tasks awaited, in order
    sentTx,         \* pipeline: the mint transactions handed to the signer
    outcome,        \* pipeline: what the operation returned or threw
    invocations,    \* pair: the parameters and locals of two waitTask calls
    videoNft,       \* chain: the storage of the default VideoNFT contract
    mintLog,        \* chain: the Mint events the contract has emitted
    lastTx,         \* chain: the last mint transaction and how it ended
    nftInfo,        \* web3: a getMintedNftInfo call, its receipt and result
    wallet          \* web3: a switchOrAddChain call, its requests and result

\* An absent optional field (undefined) of a number type.
Undef == 0 - 1

\* x ?? d
Nullish(x, d) == IF x = Undef THEN d ELSE x

\* The truthiness of an optional number: undefined and 0 are falsy.
Truthy(x) == x # Undef /\ x # 0

(***************************************************************************)
(* Exact arithmetic helpers.                                               *)
(***************************************************************************)

\* a / b > c / d for a, c >= 0 and b, d > 0, by comparing continued fractions.
RECURSIVE FracGreater(_, _, _, _)
FracGreater(a, b, c, d) ==
    LET qa == a \div b
        qc == c \div d
        ra == a % b
        rc == c % d
    IN IF qa # qc THEN qa > qc
       ELSE IF ra = 0 THEN FALSE
       ELSE IF rc = 0 THEN TRUE
       ELSE FracGreater(d, rc, b, ra)

(***************************************************************************)
(* Bitrate planner.                                                        *)
(***************************************************************************)

\* The default of getDesiredBitrate's sizeLimit parameter.
DefaultSizeLimit == 100000000

\* The default of getDesiredBitrate's minBitrate parameter.
DefaultMinBitrate == 100000

min720pBitrate == 500000

\* The track that tracks.find(t => t.type === type) returns: the first one of
\* that type, or a track with found = FALSE when the asset has no videoSpec,
\* no tracks or no track of that type.
FindTrack(asset, type) ==
    IF asset.hasTracks /\ \E i \in 1..Len(asset.tracks) : asset.tracks[i].type = type
    THEN LET i == CHOOSE k \in 1..Len(asset.tracks) :
                     /\ asset.tracks[k].type = type
                     /\ \A j \in 1..(k - 1) : asset.tracks[j].type # type
         IN [found |-> TRUE, bitrate |-> asset.tracks[i].bitrate,
             width |-> asset.tracks[i].width, height |-> asset.tracks[i].height]
    ELSE [found |-> FALSE, bitrate |-> Undef, width |-> Undef, height |-> Undef]

getVideoTrack(asset) == FindTrack(asset, "video")

NullResult == [kind |-> "null", value |-> 0]
ThrowResult == [kind |-> "throw", value |-> 0]
NumberResult(n) == [kind |-> "number", value |-> n]

(***************************************************************************)
(* binary64 arithmetic of (bitrate + audioBitrate) * (sizeLimit / size).   *)
(* A significand is a little-endian sequence of limbs in base 2^14, so     *)
(* that no step leaves the checker's integer range.                        *)
(***************************************************************************)

LimbBase == 2 ^ 14

\* The number of bits of the significand of a binary64 number.
SignificandBits == 53

\* <<q, r>>: the next n bits q of the binary expansion of rem / s (rem < s),
\* most significant first, and the remainder r after them.
RECURSIVE DivBits(_, _, _)
DivBits(rem, s, n) ==
    IF n = 0 THEN <<0, rem>>
    ELSE LET bit == IF rem >= s - rem THEN 1 ELSE 0
             next == IF bit = 1 THEN rem - (s - rem) ELSE rem + rem
             rest == DivBits(next, s, n - 1)
         IN <<bit * 2 ^ (n - 1) + rest[1], rest[2]>>

\* <<x * 2^(e - 1), e>> for the least e >= 1 with x * 2^e >= s (0 < x < s).
RECURSIVE ScaleToHalf(_, _, _)
ScaleToHalf(x, s, e) ==
    IF x < s - x THEN ScaleToHalf(x + x, s, e + 1) ELSE <<x, e>>

\* The limbs p with add added to limb i, the carry taken into the next limbs.
RECURSIVE AddAt(_, _, _)
AddAt(p, i, add) ==
    IF add = 0 THEN p
    ELSE IF i = Len(p) THEN [p EXCEPT ![i] = p[i] + add]
    ELSE LET t == p[i] + add
         IN AddAt([p EXCEPT ![i] = t % LimbBase], i + 1, t \div LimbBase)

\* <<m, r>>: the limbs m, least significant first, of the next bits of the
\* binary expansion of rem / s, cut into limbs of the given widths from the
\* most significant on, put before the limbs acc; r is the remainder.
RECURSIVE DivLimbs(_, _, _, _)
DivLimbs(rem, s, widths, acc) ==
    IF widths = <<>> THEN <<acc, rem>>
    ELSE LET d == DivBits(rem, s, Head(widths))
         IN DivLimbs(d[2], s, Tail(widths), <<d[1]>> \o acc)

\* The significand m, its leading bit set, rounded to nearest, ties to even,
\* given the remainder rem of the division by s.
RoundQuotient(m, rem, s) ==
    LET lead == [m EXCEPT ![4] = @ + 2 ^ (SignificandBits - 43)]
    IN IF rem > s - rem \/ (rem = s - rem /\ m[1] % 2 = 1)
       THEN AddAt(lead, 1, 1)
       ELSE lead

\* The significand of x / s for x = scaled[1], s / 2 <= x < s: a leading 1
\* and the 52 bits after it, rounded.
Significand(scaled, s) ==
    LET d == DivLimbs(scaled[1] - (s - scaled[1]), s,
                      <<SignificandBits - 43, 14, 14, 14>>, <<>>)
    IN RoundQuotient(d[1], d[2], s)

\* The binary64 quotient x / s for 0 < x < s: limbs m and exp with
\* x / s rounded to nearest (ties to even) = m * 2^(-exp), 2^52 <= m <= 2^53.
Quotient64(x, s) ==
    LET scaled == ScaleToHalf(x, s, 1)
    IN [limbs |-> Significand(scaled, s),
        exp |-> scaled[2] + SignificandBits - 1]

\* The exact product of b (0 <= b < 2^31) and the four limbs m, in seven limbs.
Product(b, m) ==
    LET b1 == b % LimbBase
        b2 == (b \div LimbBase) % LimbBase
        b3 == b \div (LimbBase * LimbBase)
        t1 == b1 * m[1]
        t2 == b1 * m[2] + b2 * m[1] + t1 \div LimbBase
        t3 == b1 * m[3] + b2 * m[2] + b3 * m[1] + t2 \div LimbBase
        t4 == b1 * m[4] + b2 * m[3] + b3 * m[2] + t3 \div LimbBase
        t5 == b2 * m[4] + b3 * m[3] + t4 \div LimbBase
        t6 == b3 * m[4] + t5 \div LimbBase
    IN <<t1 % LimbBase, t2 % LimbBase, t3 % LimbBase, t4 % LimbBase,
         t5 % LimbBase, t6 % LimbBase, t6 \div LimbBase>>

RECURSIVE BitLength(_)
BitLength(x) == IF x = 0 THEN 0 ELSE 1 + BitLength(x \div 2)

\* The number of bits of the positive number with limbs p.
LimbsBitLength(p) ==
    LET top == CHOOSE i \in 1..Len(p) :
                   p[i] > 0 /\ \A j \in (i + 1)..Len(p) : p[j] = 0
    IN 14 * (top - 1) + BitLength(p[top])

\* The number with limbs p[i], p[i + 1], ...
RECURSIVE HighLimbs(_, _)
HighLimbs(p, i) ==
    IF i > Len(p) THEN 0 ELSE p[i] + LimbBase * HighLimbs(p, i + 1)

\* floor(b * (x / s)) as binary64 evaluates it, for 0 <= b and 0 <= x <= s:
\* the quotient is rounded, then the product is rounded, then floored.  With
\* p the exact product of b and the quotient's significand, rounding p to 53
\* bits and flooring is floor((p + 2^(k - 1)) / 2^exp), k the bits p has in
\* excess of 53.
MulFloor64(b, x, s) ==
    IF b = 0 \/ x = 0 THEN 0
    ELSE IF x = s THEN b
    ELSE LET q == Quotient64(x, s)
             p == Product(b, q.limbs)
             k == LimbsBitLength(p) - SignificandBits
             rounded == IF k >= 1
                        THEN AddAt(p, ((k - 1) \div 14) + 1, 2 ^ ((k - 1) % 14))
                        ELSE p
             limb == q.exp \div 14
             offset == q.exp % 14
         IN HighLimbs(rounded, limb + 2) * 2 ^ (14 - offset)
                + rounded[limb + 1] \div 2 ^ offset

\* DesiredBitrateOf with the audio bitrate left out of the scaled sum.
DesiredBitrateOf_AudioNotScaled(bitrate, audioBitrate, sizeLimit, size) ==
    MulFloor64(bitrate, sizeLimit, size) - audioBitrate

\* Math.floor((bitrate + audioBitrate) * (sizeLimit / size) - audioBitrate)
\* for 0 <= sizeLimit < size.  The subtraction of the integer audioBitrate is
\* exact when the result is not negative; a negative result only feeds the
\* comparison with minBitrate.
DesiredBitrateOf(bitrate, audioBitrate, sizeLimit, size) ==
    MulFloor64(bitrate + audioBitrate, sizeLimit, size) - audioBitrate

\* getDesiredBitrate with size < sizeLimit in place of size <= sizeLimit.
getDesiredBitrate_StrictLimit(asset, sizeLimitArg, minBitrateArg) ==
    LET sizeLimit == Nullish(sizeLimitArg, DefaultSizeLimit)
        minBitrate == Nullish(minBitrateArg, DefaultMinBitrate)
        size == Nullish(asset.size, 0)
        bitrate == Nullish(getVideoTrack(asset).bitrate, 0)
        audioBitrate == Nullish(FindTrack(asset, "audio").bitrate, 0)
        desiredBitrate == DesiredBitrateOf(bitrate, audioBitrate, sizeLimit, size)
    IN IF size < sizeLimit \/ ~Truthy(bitrate) THEN NullResult
       ELSE IF desiredBitrate < minBitrate THEN ThrowResult
       ELSE NumberResult(desiredBitrate)

\* getDesiredBitrate without the !bitrate test.
getDesiredBitrate_NoBitrateCheck(asset, sizeLimitArg, minBitrateArg) ==
    LET sizeLimit == Nullish(sizeLimitArg, DefaultSizeLimit)
        minBitrate == Nullish(minBitrateArg, DefaultMinBitrate)
        size == Nullish(asset.size, 0)
        bitrate == Nullish(getVideoTrack(asset).bitrate, 0)
        audioBitrate == Nullish(FindTrack(asset, "audio").bitrate, 0)
        desiredBitrate == DesiredBitrateOf(bitrate, audioBitrate, sizeLimit, size)
    IN IF size <= sizeLimit THEN NullResult
       ELSE IF desiredBitrate < minBitrate THEN ThrowResult
       ELSE NumberResult(desiredBitrate)

\* getDesiredBitrate with desiredBitrate <= minBitrate in place of <.
getDesiredBitrate_InclusiveMin(asset, sizeLimitArg, minBitrateArg) ==
    LET sizeLimit == Nullish(sizeLimitArg, DefaultSizeLimit)
        minBitrate == Nullish(minBitrateArg, DefaultMinBitrate)
        size == Nullish(asset.size, 0)
        bitrate == Nullish(getVideoTrack(asset).bitrate, 0)
        audioBitrate == Nullish(FindTrack(asset, "audio").bitrate, 0)
        desiredBitrate == DesiredBitrateOf(bitrate, audioBitrate, sizeLimit, size)
    IN IF size <= sizeLimit \/ ~Truthy(bitrate) THEN NullResult
       ELSE IF desiredBitrate <= minBitrate THEN ThrowResult
       ELSE NumberResult(desiredBitrate)

getDesiredBitrate(asset, sizeLimitArg, minBitrateArg) ==
    LET sizeLimit == Nullish(sizeLimitArg, DefaultSizeLimit)
        minBitrate == Nullish(minBitrateArg, DefaultMinBitrate)
        size == Nullish(asset.size, 0)
        bitrate == Nullish(getVideoTrack(asset).bitrate, 0)
        audioBitrate == Nullish(FindTrack(asset, "audio").bitrate, 0)
        desiredBitrate == DesiredBitrateOf(bitrate, audioBitrate, sizeLimit, size)
    IN IF size <= sizeLimit \/ ~Truthy(bitrate) THEN NullResult
       ELSE IF desiredBitrate < minBitrate THEN ThrowResult
       ELSE NumberResult(desiredBitrate)

\* ReferenceHeightAbove720 with >= 720 in place of > 720.
ReferenceHeightAtLeast720(height, desiredBitrate, bitrate) ==
    IF height <= 0 \/ desiredBitrate <= 0 \/ bitrate < 0 THEN FALSE
    ELSE IF bitrate = 0 THEN TRUE
    ELSE ~FracGreater(720 * 720, height * height, desiredBitrate, bitrate)

\* height * Math.sqrt(desiredBitrate / bitrate) > 720
ReferenceHeightAbove720(height, desiredBitrate, bitrate) ==
    IF height <= 0 \/ desiredBitrate <= 0 \/ bitrate < 0 THEN FALSE
    ELSE IF bitrate = 0 THEN TRUE
    ELSE FracGreater(desiredBitrate, bitrate, 720 * 720, height * height)

NoProfile == [name |-> "null", width |-> 0, height |-> 0, bitrate |-> 0, fps |-> 0]

\* makeProfile that keeps the bitrate of the source track.
makeProfile_SourceBitrate(asset, desiredBitrate) ==
    LET track == getVideoTrack(asset)
        bitrate == Nullish(track.bitrate, 1)
        width == Nullish(track.width, 0)
        height == Nullish(track.height, 0)
        resolution ==
            IF height < 480 \/ ReferenceHeightAbove720(height, desiredBitrate, bitrate)
            THEN [name |-> "low-bitrate", width |-> width, height |-> height]
            ELSE IF desiredBitrate < min720pBitrate
            THEN [name |-> "480p", width |-> 854, height |-> 480]
            ELSE [name |-> "720p", width |-> 1280, height |-> 720]
    IN [name |-> resolution.name, width |-> resolution.width,
        height |-> resolution.height, bitrate |-> bitrate, fps |-> 0]

makeProfile(asset, desiredBitrate) ==
    LET track == getVideoTrack(asset)
        bitrate == Nullish(track.bitrate, 1)
        width == Nullish(track.width, 0)
        height == Nullish(track.height, 0)
        resolution ==
            IF height < 480 \/ ReferenceHeightAbove720(height, desiredBitrate, bitrate)
            THEN [name |-> "low-bitrate", width |-> width, height |-> height]
            ELSE IF desiredBitrate < min720pBitrate
            THEN [name |-> "480p", width |-> 854, height |-> 480]
            ELSE [name |-> "720p", width |-> 1280, height |-> 720]
    IN [name |-> resolution.name, width |-> resolution.width,
        height |-> resolution.height, bitrate |-> desiredBitrate, fps |-> 0]

\* checkNftNormalize whose catch clause returns possible: true.
checkNftNormalize_CatchPossible(asset, sizeLimitArg) ==
    LET res == getDesiredBitrate(asset, sizeLimitArg, Undef)
    IN IF res.kind = "number" /\ Truthy(res.value)
       THEN [kind |-> "return", possible |-> TRUE,
             desiredProfile |-> makeProfile(asset, res.value)]
       ELSE [kind |-> "return", possible |-> TRUE, desiredProfile |-> NoProfile]

\* The outcome of Api.checkNftNormalize: kind is "return" or "throw".
checkNftNormalize(asset, sizeLimitArg) ==
    LET res == getDesiredBitrate(asset, sizeLimitArg, Undef)
    IN IF res.kind = "throw"
       THEN [kind |-> "return", possible |-> FALSE, desiredProfile |-> NoProfile]
       ELSE IF res.kind = "number" /\ Truthy(res.value)
       THEN [kind |-> "return", possible |-> TRUE,
             desiredProfile |-> makeProfile(asset, res.value)]
       ELSE [kind |-> "return", possible |-> TRUE, desiredProfile |-> NoProfile]

(***************************************************************************)
(* Task poller: Api.waitTask.                                              *)
(***************************************************************************)

\* An absent optional field (undefined) of a string or object type.
Absent == "<absent>"

\* String(x) inside a template literal.
ToStr(x) == IF x = Absent THEN "undefined" ELSE x

\* LoopCondition of a loop that polls once before it tests the phase.
LoopCondition_PollFirst(t) ==
    getTaskCalls = 0 \/ (t.status.phase # "completed" /\ t.status.phase # "failed")

\* LoopCondition of a loop that gives up after two polls.
LoopCondition_GivesUp(t) ==
    getTaskCalls < 2 /\ t.status.phase # "completed" /\ t.status.phase # "failed"

\* while (task.status?.phase !== 'completed' && task.status?.phase !== 'failed')
LoopCondition(t) == t.status.phase # "completed" /\ t.status.phase # "failed"

\* ShouldReport without the comparison with lastProgress.
ShouldReport_NoDedupe(progress, last) == Truthy(progress)

\* ShouldReport that takes only a missing progress for nothing to report.
ShouldReport_ZeroToo(progress, last) == progress # Undef /\ progress # last

\* if (progress && progress !== lastProgress)
ShouldReport(progress, last) == Truthy(progress) /\ progress # last

\* TaskFailedMessage without the remote error message.
TaskFailedMessage_NoError(t) == <<ToStr(t.type), " task failed">>

\* `${task.type} task failed. error: ${task.status.errorMessage}`
TaskFailedMessage(t) ==
    <<ToStr(t.type), " task failed. error: ", ToStr(t.status.errorMessage)>>

NoResult == [kind |-> "none"]

\* WaitTaskResult returning the task held before the last fetch.
WaitTaskResult_Previous(t) ==
    IF t.status.phase = "failed"
    THEN [kind |-> "throw", message |-> TaskFailedMessage(t)]
    ELSE [kind |-> "return", task |-> task]

\* What waitTask does with the task it left the loop with.
WaitTaskResult(t) ==
    IF t.status.phase = "failed"
    THEN [kind |-> "throw", message |-> TaskFailedMessage(t)]
    ELSE [kind |-> "return", task |-> t]

\* The error of a getTask request that the service rejected.
RequestError == [kind |-> "throw", message |-> <<"Request to /api/task failed">>]

(***************************************************************************)
(* Chains and Web3.mintNft.                                                *)
(***************************************************************************)

\* A chain ID as callers pass it: a number, or a hexadecimal string given by
\* the digits after "0x".
NumberChainId(n) == [kind |-> "number", n |-> n, digits |-> <<>>]
HexChainId(ds) == [kind |-> "hex", n |-> 0, digits |-> ds]

\* The hexadecimal digits of a number, most significant first.
RECURSIVE HexOfNumber(_)
HexOfNumber(n) ==
    IF n < 16 THEN <<n>> ELSE Append(HexOfNumber(n \div 16), n % 16)

\* Hexadecimal digits without their leading zeros.
RECURSIVE StripZeros(_)
StripZeros(ds) ==
    IF Len(ds) > 1 /\ Head(ds) = 0 THEN StripZeros(Tail(ds)) ELSE ds

\* toHexChainId: utils.hexValue(chainId), as the digits after "0x"; the
\* empty string for null.
toHexChainId(chainId) ==
    IF chainId.kind = "null" THEN <<>>
    ELSE IF chainId.kind = "number" THEN HexOfNumber(chainId.n)
    ELSE StripZeros(chainId.digits)

NoChain ==
    [found |-> FALSE, defaultContract |-> Absent, opensea |-> FALSE,
     baseUrl |-> Absent, chainName |-> Absent]

\* The record builtinChains, indexed by the hexadecimal chain ID.
builtinChains(hex) ==
    IF hex = <<8, 9>>
    THEN [found |-> TRUE, opensea |-> TRUE,
          baseUrl |-> "https://opensea.io", chainName |-> "matic",
          defaultContract |-> "0x69C53E7b8c41bF436EF5a2D81DB759Dc8bD83b5F"]
    ELSE IF hex = <<1, 3, 8, 8, 1>>
    THEN [found |-> TRUE, opensea |-> TRUE,
          baseUrl |-> "https://testnets.opensea.io", chainName |-> "mumbai",
          defaultContract |-> "0xA4E1d8FE768d471B048F9d73ff90ED8fcCC03643"]
    ELSE NoChain

\* builtinChains[toHexChainId(chainId)] || null
getBuiltinChain(chainId) == builtinChains(toHexChainId(chainId))

\* The Web3 instance that new Web3({ethereum, chainId}) constructs.
Web3Of(ethereum, chainId) ==
    [hasProvider |-> ethereum, chainId |-> toHexChainId(chainId)]

Throw(msg) == [kind |-> "throw", message |-> msg]

\* The characters of a hexadecimal chain ID inside a template literal.
HexStr(ds) ==
    <<"0x">> \o [i \in 1..Len(ds) |->
                   <<"0", "1", "2", "3", "4", "5", "6", "7", "8", "9",
                     "a", "b", "c", "d", "e", "f">>[ds[i] + 1]]

\* contractAddress ||= getBuiltinChain(this.chainId)?.defaultContract
ResolveContract(contractAddress, chainId) ==
    IF contractAddress # Absent /\ contractAddress # ""
    THEN contractAddress
    ELSE getBuiltinChain(HexChainId(chainId)).defaultContract

\* ChainMatches without the comparison of the chain IDs.
ChainMatches_Unchecked(currChainId, chainId) == TRUE

\* The negation of: if (currChainId !== this.chainId) throw
ChainMatches(currChainId, chainId) == currChainId = chainId

\* mintNft up to its first await: the error it throws, or the contract it
\* goes on with to provider.getNetwork().
MintNftStart(w3, contractAddress) ==
    LET contract == ResolveContract(contractAddress, w3.chainId)
    IN IF contract = Absent \/ contract = ""
       THEN Throw(<<"No contract address provided nor builtin chain">>)
       ELSE IF ~w3.hasProvider
       THEN Throw(<<"No Ethereum provider configured">>)
       ELSE [kind |-> "await", contract |-> contract]

\* mintNft after getNetwork resolved with net: the error of a chain mismatch.
InconsistentChain(w3, currChainId) ==
    Throw(<<"Inconsistent chain ID: created for ">> \o HexStr(w3.chainId)
            \o <<" but found ">> \o HexStr(currChainId))

(***************************************************************************)
(* switchOrAddChain.                                                       *)
(***************************************************************************)

\* The error a wallet rejects a request with.
WalletError(code) ==
    [kind |-> "throw", message |-> <<"wallet rejected the request">>, code |-> code]

\* ShouldAdd for every error of the switch.
ShouldAdd_Any(err) == TRUE

\* The catch clause goes on to addChain: the negation of
\* if (err.code !== 4902) throw err
ShouldAdd(err) == "code" \in DOMAIN err /\ err.code = 4902

(***************************************************************************)
(* Web3.getMintedNftInfo.                                                  *)
(***************************************************************************)

\* An undefined URL.
NoUrl == <<>>

\* Undefined event arguments.  A receipt has the fields to, hasEvents and
\* events (empty when hasEvents is false); an event has the fields event,
\* hasArgs and args.
NoEventArgs == [defined |-> FALSE, args |-> <<>>]

\* FindMintArgs taking the last Mint event of the receipt.
FindMintArgs_Last(receipt) ==
    LET mints == {i \in 1..Len(receipt.events) : receipt.events[i].event = "Mint"}
    IN IF ~receipt.hasEvents \/ mints = {} THEN NoEventArgs
       ELSE LET ev == receipt.events[CHOOSE i \in mints : \A j \in mints : j <= i]
            IN [defined |-> ev.hasArgs, args |-> ev.args]

\* receipt.events?.find(ev => ev?.event === 'Mint')?.args
FindMintArgs(receipt) ==
    LET mints == {i \in 1..Len(receipt.events) : receipt.events[i].event = "Mint"}
    IN IF ~receipt.hasEvents \/ mints = {} THEN NoEventArgs
       ELSE LET ev == receipt.events[CHOOSE i \in mints : \A j \in mints : i <= j]
            IN [defined |-> ev.hasArgs, args |-> ev.args]

\* if (chainInfo?.opensea)
HasOpensea(chainInfo) == chainInfo.found /\ chainInfo.opensea

\* getMintedNftInfo after tx.wait() resolved with the receipt, on a Web3
\* instance of the given (normalized) chain ID.  URLs are the pieces of their
\* template literals.
getMintedNftInfo(receipt, chainId) ==
    LET contractAddress == receipt.to
        mintEv == FindMintArgs(receipt)
        tokenId == IF mintEv.defined /\ Len(mintEv.args) > 3
                   THEN mintEv.args[4] ELSE Undef
        chainInfo == getBuiltinChain(HexChainId(chainId))
    IN [contractAddress |-> contractAddress,
        tokenId |-> tokenId,
        hasOpensea |-> HasOpensea(chainInfo),
        contractUrl |->
            IF HasOpensea(chainInfo)
            THEN <<chainInfo.baseUrl, "/assets?search%5Bquery%5D=", contractAddress>>
            ELSE NoUrl,
        tokenUrl |->
            IF HasOpensea(chainInfo) /\ Truthy(tokenId)
            THEN <<chainInfo.baseUrl, "/assets/", chainInfo.chainName, "/",
                   contractAddress, "/", tokenId>>
            ELSE NoUrl]

(***************************************************************************)
(* The default ERC-721 contract (VideoNFT).                                *)
(***************************************************************************)

\* The storage of a freshly deployed contract: the counter _tokenIds, and the
\* owner and the URI of each token, indexed by token ID (IDs start at 1).
NewVideoNft == [tokenIds |-> 0, owners |-> <<>>, tokenURIs |-> <<>>]

\* mint without the require on the owner.
mint_AnyOwner(c, sender, owner, tokenURI) ==
    LET newItemId == c.tokenIds + 1
    IN [reverted |-> FALSE,
        returned |-> newItemId,
        storage |-> [tokenIds |-> newItemId,
                     owners |-> Append(c.owners, owner),
                     tokenURIs |-> Append(c.tokenURIs, tokenURI)],
        logs |-> <<[event |-> "Mint", sender |-> sender, owner |-> owner,
                    tokenURI |-> tokenURI, tokenId |-> newItemId]>>]

\* VideoNFT.mint called by sender on the storage c: whether it reverted, the
\* value returned, the storage left and the events emitted.  A revert undoes
\* every write and emits nothing.
mint(c, sender, owner, tokenURI) ==
    IF owner # sender
    THEN [reverted |-> TRUE, returned |-> Undef, storage |-> c, logs |-> <<>>]
    ELSE LET newItemId == c.tokenIds + 1
         IN [reverted |-> FALSE,
             returned |-> newItemId,
             storage |-> [tokenIds |-> newItemId,
                          owners |-> Append(c.owners, owner),
                          tokenURIs |-> Append(c.tokenURIs, tokenURI)],
             logs |-> <<[event |-> "Mint", sender |-> sender, owner |-> owner,
                         tokenURI |-> tokenURI, tokenId |-> newItemId]>>]

(***************************************************************************)
(* Pipeline: pure parts of createNft, nftNormalize and exportToIPFS.       *)
(***************************************************************************)

\* nftNormalize goes on to transcodeAsset: the negation of
\* if (!possible || !desiredProfile) return asset
ShouldTranscode(check) == check.possible /\ check.desiredProfile # NoProfile

\* Normalizes whatever the skipNormalize flag says.
Normalizes_Always(a) == TRUE

\* if (!args.skipNormalize)
Normalizes(a) == ~a.skipNormalize

\* JSON.parse(nftMetadata) returns (it throws a SyntaxError otherwise).
JsonParses(text) == text # "{invalid json"

\* An await that hands on the value of a promise that is not yet settled.
Settled_Eager(p) == p \in {"getTask", "done"}

\* An await of waitTask resumes once its promise is settled.
Settled(p) == p = "done"

\* An await that swallows the rejection of the awaited promise.
Rejected_Swallowed(res) == FALSE

\* An await rethrows the rejection of the awaited promise.
Rejected(res) == res.kind = "throw"

\* nftMetadataUrl ?? ''
TokenUriOf(ipfs) ==
    IF ipfs.nftMetadataUrl = Absent THEN "" ELSE ipfs.nftMetadataUrl

\* One entry of the trace: a request issued (op, with the id or URI it
\* carries and the profile of a transcode request) or a waitTask that
\* returned (op "waited", with the task's type and last observed phase).
Event(op, arg) == [op |-> op, arg |-> arg, profile |-> NoProfile, phase |-> Absent]

(***************************************************************************)
(* Bounds and input sets.                                                  *)
(***************************************************************************)

\* The largest number of getTask calls of one waitTask that is explored.
MaxPolls == 4

\* The progress values of a running task are 1..MaxProgress (and 0, and none).
MaxProgress == 2

VideoTracks ==
    { [type |-> "video", bitrate |-> 300, width |-> 640, height |-> 360],
      [type |-> "video", bitrate |-> 300, width |-> 854, height |-> 480],
      [type |-> "video", bitrate |-> 2000000, width |-> 1920, height |-> 1080],
      [type |-> "video", bitrate |-> 780000, width |-> 1280, height |-> 720],
      [type |-> "video", bitrate |-> 2000000, width |-> 2560, height |-> 1440],
      [type |-> "video", bitrate |-> Undef, width |-> 1280, height |-> 720],
      [type |-> "video", bitrate |-> 0, width |-> 1920, height |-> 1080],
      [type |-> "video", bitrate |-> 2000000, width |-> Undef, height |-> Undef],
      [type |-> "video", bitrate |-> 2000000, width |-> 640, height |-> 480],
      [type |-> "video", bitrate |-> 169963564, width |-> 1920, height |-> 1080] }

AudioTracks ==
    { [type |-> "audio", bitrate |-> 128000, width |-> Undef, height |-> Undef],
      [type |-> "audio", bitrate |-> 28, width |-> Undef, height |-> Undef],
      [type |-> "audio", bitrate |-> Undef, width |-> Undef, height |-> Undef] }

TrackLists ==
    {<<>>} \cup { <<v>> : v \in VideoTracks } \cup { <<a>> : a \in AudioTracks }
        \cup { <<v, a>> : v \in VideoTracks, a \in AudioTracks }
        \cup { <<a, v>> : a \in AudioTracks, v \in VideoTracks }
        \cup { <<v, w>> : v \in {t \in VideoTracks : t.height = 360},
                          w \in {t \in VideoTracks : t.height = 1440} }

Sizes ==
    {Undef, 0, 100, 150, 200, 200000000, 221969369, 390000000, 500000000,
     2000000000}

SizeLimits == {Undef, 100}

MinBitrates == {Undef, 136, 137}

Assets ==
    { [size |-> s, hasTracks |-> TRUE, tracks |-> ts] : s \in Sizes, ts \in TrackLists }
        \cup { [size |-> s, hasTracks |-> FALSE, tracks |-> <<>>] : s \in Sizes }

\* The desiredBitrate arguments makeProfile is called with.
DesiredBitrates == {0, 136, 400000, 499999, 500000, 936000}

TaskTypes == {"import", "export"}

NonTerminalStatuses ==
    { [phase |-> Absent, progress |-> Undef, errorMessage |-> Absent],
      [phase |-> "pending", progress |-> Undef, errorMessage |-> Absent],
      [phase |-> "cancelled", progress |-> Undef, errorMessage |-> Absent] }
        \cup { [phase |-> "running", progress |-> p, errorMessage |-> Absent] :
                 p \in 0..MaxProgress }

TerminalStatuses ==
    { [phase |-> "failed", progress |-> p, errorMessage |-> m] :
        p \in {Undef, MaxProgress}, m \in {Absent, "encode error"} }
        \cup { [phase |-> "completed", progress |-> p, errorMessage |-> Absent] :
                 p \in {Undef, MaxProgress} }

TaskStatuses == NonTerminalStatuses \cup TerminalStatuses

\* The task object carrying a status; a completed task carries its output.
TaskOf(type, st) ==
    [id |-> "task-1", type |-> type, status |-> st,
     output |-> IF st.phase = "completed" THEN "output" ELSE Absent]

\* The largest number of mint transactions sent to the contract.
MaxTxs == 3

\* The accounts that send transactions, and the token URIs they pass.
Accounts == {"0xA11ce", "0xB0b"}

TokenUris == {"ipfs://metadata", ""}

\* The codes of the errors a wallet rejects with: unrecognized chain, rejected
\* by the user, internal error.
ErrorCodes == {4902, 4001, 0 - 32603}

\* The events of a receipt: the Transfer event of ERC-721 and a Mint event with
\* the given arguments.
TransferEv ==
    [event |-> "Transfer", hasArgs |-> TRUE, args |-> <<"0x0", "0xA11ce", "1">>]

MintEv(eventArgs) == [event |-> "Mint", hasArgs |-> TRUE, args |-> eventArgs]

MintEvOf(tokenId) == MintEv(<<"0xA11ce", "0xA11ce", "ipfs://metadata", tokenId>>)

ReceiptOf(to, evs) == [to |-> to, hasEvents |-> TRUE, events |-> evs]

\* The receipts tx.wait() resolves with: of contracts that emit no event, no
\* Mint event, a Mint event without arguments or with three, and the Mint
\* event of the ABI with token IDs from 0.
Receipts ==
    { [to |-> "0xC0ffee", hasEvents |-> FALSE, events |-> <<>>],
      ReceiptOf("0xC0ffee", <<>>),
      ReceiptOf("0xC0ffee", <<TransferEv>>),
      ReceiptOf("0xC0ffee",
                <<TransferEv, [event |-> "Mint", hasArgs |-> FALSE, args |-> <<>>]>>),
      ReceiptOf("0xC0ffee", <<MintEv(<<"0xA11ce", "0xA11ce", "ipfs://metadata">>)>>),
      ReceiptOf("0xC0ffee", <<MintEvOf(1), MintEvOf(2)>>) }
        \cup { ReceiptOf("0xC0ffee", <<TransferEv, MintEvOf(id)>>) : id \in 0..MaxTxs }

\* The largest number of getTask calls of each of two interleaved waitTask
\* calls.
MaxPairPolls == 2

\* The two waitTask calls, and the type and id of the task each one polls.
Invocations == {1, 2}

PairTask(i, st) ==
    [TaskOf(<<"import", "export">>[i], st) EXCEPT !.id = <<"task-1", "task-2">>[i]]

\* The statuses the two tasks are observed in.
PairTerminalStatuses ==
    { [phase |-> "failed", progress |-> Undef, errorMessage |-> "encode error"],
      [phase |-> "completed", progress |-> MaxProgress, errorMessage |-> Absent] }

PairStatuses ==
    { [phase |-> "running", progress |-> p, errorMessage |-> Absent] :
        p \in 1..MaxProgress } \cup PairTerminalStatuses

\* The largest number of getTask calls of one waitTask inside a pipeline run.
MaxStagePolls == 1

\* The statuses the tasks of a pipeline run are observed in.
StageTerminalStatuses ==
    { [phase |-> "failed", progress |-> Undef, errorMessage |-> "encode error"],
      [phase |-> "completed", progress |-> MaxProgress, errorMessage |-> Absent] }

StageStatuses ==
    { [phase |-> "pending", progress |-> Undef, errorMessage |-> Absent],
      [phase |-> "running", progress |-> MaxProgress, errorMessage |-> Absent] }
        \cup StageTerminalStatuses

\* An asset as getAsset returns it: the video metadata a under the id.
AssetWith(id, a) ==
    [id |-> id, size |-> a.size, hasTracks |-> a.hasTracks, tracks |-> a.tracks]

NoAsset == AssetWith(Absent, [size |-> Undef, hasTracks |-> FALSE, tracks |-> <<>>])

\* The assets an import produces: one within the 100 MB limit, one that a
\* lower bitrate fits into the limit, one too large for any accepted bitrate,
\* and one above the limit without a video track.
ImportedAssets ==
    { [size |-> 100, hasTracks |-> TRUE,
       tracks |-> <<[type |-> "video", bitrate |-> 2000000,
                     width |-> 1920, height |-> 1080]>>],
      [size |-> 200000000, hasTracks |-> TRUE,
       tracks |-> <<[type |-> "video", bitrate |-> 2000000,
                     width |-> 1920, height |-> 1080]>>],
      [size |-> 2000000000, hasTracks |-> TRUE,
       tracks |-> <<[type |-> "video", bitrate |-> 780000,
                     width |-> 1280, height |-> 720]>>],
      [size |-> 500000000, hasTracks |-> FALSE, tracks |-> <<>>] }

\* The asset a transcode produces.
TranscodedAssets ==
    { [size |-> 100, hasTracks |-> TRUE,
       tracks |-> <<[type |-> "video", bitrate |-> 300,
                     width |-> 854, height |-> 480]>>] }

\* The id of the imported asset and of the asset a transcode creates.
ImportedAssetId == "asset-1"
TranscodedAssetId == "asset-2"

\* output.export.ipfs of a completed export task: absent, complete, or without
\* its nftMetadataUrl.
NoIpfs == [present |-> FALSE, nftMetadataUrl |-> Absent]

IpfsOutputs ==
    { NoIpfs,
      [present |-> TRUE, nftMetadataUrl |-> "ipfs://metadata"],
      [present |-> TRUE, nftMetadataUrl |-> Absent] }

\* The mint options of createNft: none, empty, and with a contract address
\* (an empty one, one of the caller's) and a recipient.
NoMint == [given |-> FALSE, contractAddress |-> Absent, to |-> Absent]

MintArgs ==
    { NoMint,
      [given |-> TRUE, contractAddress |-> Absent, to |-> Absent],
      [given |-> TRUE, contractAddress |-> "", to |-> Absent],
      [given |-> TRUE, contractAddress |-> "0xCustomContract", to |-> Absent],
      [given |-> TRUE, contractAddress |-> "0xCustomContract", to |-> "0xRecipient"] }

\* The file argument: a path, a File or stream of the caller, or none.
FileArgs == {"path", "stream", "none"}

\* The nftMetadata argument: none, a JSON string, a string that is not JSON.
NftMetadataArgs == {Absent, "{}", "{invalid json"}

Args ==
    [file : FileArgs, skipNormalize : BOOLEAN, nftMetadata : NftMetadataArgs,
     mint : MintArgs]

NoArgs == [file |-> "none", skipNormalize |-> FALSE, nftMetadata |-> Absent,
           mint |-> NoMint]

\* The Web3 instances: on Polygon (given as 137 or as "0x089"), on chain 1,
\* and one constructed without a provider.
Web3Configs ==
    { Web3Of(TRUE, NumberChainId(137)),
      Web3Of(TRUE, HexChainId(<<0, 8, 9>>)),
      Web3Of(TRUE, NumberChainId(1)),
      Web3Of(FALSE, NumberChainId(137)) }

\* The Web3 instances getMintedNftInfo is called on.
Web3Chains ==
    Web3Configs \cup {Web3Of(TRUE, NumberChainId(80001)),
                      Web3Of(TRUE, HexChainId(<<1, 3, 8, 8, 1>>))}

\* The chain IDs the provider's network reports.
NetChainIds == {137, 1}


\* The address of the provider's signer.
SignerAddress == "0xSigner"

(***************************************************************************)
(* Tuples of variables and the initial values.                             *)
(***************************************************************************)

plannerVars == <<inAsset, inSizeLimit, inMinBitrate, bitrateRes, profileRes, checkRes>>

pollerVars == <<pc, task, hasCallback, lastProgress, reported, getTaskCalls,
                sleepsStarted, sleepsElapsed, result, observed>>

pipelineVars == <<proc, stage, isBrowser, web3, netChain, args, stream, uploadTask, curAsset,
                  exportIpfs, trace, sentTx, outcome>>

pairVars == <<invocations>>

web3Vars == <<videoNft, mintLog, lastTx, nftInfo, wallet>>

vars == <<plannerVars, pollerVars, pipelineVars, pairVars, web3Vars>>

NotCalled == [kind |-> "none", value |-> 0]

IdleTask == TaskOf("import", [phase |-> Absent, progress |-> Undef, errorMessage |-> Absent])

InitPollerVars ==
    /\ pc = "idle"
    /\ task = IdleTask
    /\ hasCallback = FALSE
    /\ lastProgress = 0
    /\ reported = <<>>
    /\ getTaskCalls = 0
    /\ sleepsStarted = 0
    /\ sleepsElapsed = 0
    /\ result = NoResult
    /\ observed = <<>>

\* The parameters and locals of a waitTask that has not been called.
NewInvocation ==
    [pc |-> "idle", task |-> IdleTask, hasCallback |-> FALSE, lastProgress |-> 0,
     reported |-> <<>>, getTaskCalls |-> 0, result |-> NoResult, observed |-> <<>>]

\* No transaction has been sent.
NoTx == [nonce |-> 0, sender |-> Absent, owner |-> Absent, tokenURI |-> Absent,
         reverted |-> FALSE, returned |-> Undef]

\* No pipeline operation has been called.
InitPipelineVars ==
    /\ proc = "none"
    /\ stage = "none"
    /\ args = NoArgs
    /\ stream = "none"
    /\ uploadTask = IdleTask
    /\ curAsset = NoAsset
    /\ exportIpfs = NoIpfs
    /\ trace = <<>>
    /\ sentTx = <<>>
    /\ outcome = NoResult
    /\ invocations = [i \in Invocations |-> NewInvocation]
    /\ videoNft = NewVideoNft
    /\ mintLog = <<>>
    /\ lastTx = NoTx
    /\ nftInfo = [pc |-> "idle"]
    /\ wallet = [pc |-> "idle", requests |-> <<>>, switchErr |-> NoResult,
                 addErr |-> NoResult, result |-> NoResult]

\* The environment of the planner and of a waitTask called on its own.
NoEnvironment ==
    /\ isBrowser = FALSE
    /\ web3 = Web3Of(FALSE, NumberChainId(1))
    /\ netChain = 1

InitPlannerResults ==
    /\ bitrateRes = NotCalled
    /\ profileRes = NoProfile
    /\ checkRes = [kind |-> "none"]

(***************************************************************************)
(* Planner operations.                                                     *)
(***************************************************************************)

GetDesiredBitrate ==
    /\ bitrateRes' = getDesiredBitrate(inAsset, inSizeLimit, inMinBitrate)
    /\ UNCHANGED <<inAsset, inSizeLimit, inMinBitrate, profileRes, checkRes>>
    /\ UNCHANGED pollerVars
    /\ UNCHANGED <<pipelineVars, pairVars, web3Vars>>

MakeProfile ==
    /\ \E d \in DesiredBitrates : profileRes' = makeProfile(inAsset, d)
    /\ UNCHANGED <<inAsset, inSizeLimit, inMinBitrate, bitrateRes, checkRes>>
    /\ UNCHANGED pollerVars
    /\ UNCHANGED <<pipelineVars, pairVars, web3Vars>>

CheckNftNormalize ==
    /\ checkRes' = checkNftNormalize(inAsset, inSizeLimit)
    /\ UNCHANGED <<inAsset, inSizeLimit, inMinBitrate, bitrateRes, profileRes>>
    /\ UNCHANGED pollerVars
    /\ UNCHANGED <<pipelineVars, pairVars, web3Vars>>

InitPlanner ==
    /\ inAsset \in Assets
    /\ inSizeLimit \in SizeLimits
    /\ inMinBitrate \in MinBitrates
    /\ InitPlannerResults
    /\ InitPollerVars
    /\ InitPipelineVars
    /\ NoEnvironment

NextPlanner == GetDesiredBitrate \/ MakeProfile \/ CheckNftNormalize

SpecPlanner == InitPlanner /\ [][NextPlanner]_vars

(***************************************************************************)
(* Poller operations.                                                      *)
(***************************************************************************)

\* waitTask from the top of its loop, holding task t, up to its next await
\* (of getTask) or its return or throw.
RunLoop(t, cb) ==
    /\ task' = t
    /\ observed' = Append(observed, t)
    /\ IF LoopCondition(t)
       THEN LET progress == t.status.progress
                report == ShouldReport(progress, lastProgress)
            IN /\ reported' = IF report /\ cb THEN Append(reported, progress)
                              ELSE reported
               /\ lastProgress' = IF report THEN progress ELSE lastProgress
               /\ sleepsStarted' = sleepsStarted + 1
               /\ getTaskCalls' = getTaskCalls + 1
               /\ pc' = "getTask"
               /\ result' = result
       ELSE /\ UNCHANGED <<reported, lastProgress, sleepsStarted, getTaskCalls>>
            /\ pc' = "done"
            /\ result' = WaitTaskResult(t)

\* The statuses a task may be observed in while polls remain within MaxPolls.
\* Inside a pipeline run: StageStatuses, within MaxStagePolls.
Observable ==
    IF proc = "none"
    THEN IF getTaskCalls < MaxPolls THEN TaskStatuses ELSE TerminalStatuses
    ELSE IF getTaskCalls < MaxStagePolls THEN StageStatuses
    ELSE StageTerminalStatuses

WaitTask ==
    /\ pc = "idle"
    /\ \E type \in TaskTypes, st \in Observable, cb \in BOOLEAN :
          /\ hasCallback' = cb
          /\ RunLoop(TaskOf(type, st), cb)
    /\ UNCHANGED sleepsElapsed
    /\ UNCHANGED <<plannerVars, pairVars, web3Vars>>
    /\ UNCHANGED pipelineVars

GetTaskResolve ==
    /\ pc = "getTask"
    /\ \E st \in Observable : RunLoop(TaskOf(task.type, st), hasCallback)
    /\ UNCHANGED <<hasCallback, sleepsElapsed>>
    /\ UNCHANGED <<plannerVars, pairVars, web3Vars>>
    /\ UNCHANGED pipelineVars

GetTaskReject ==
    /\ pc = "getTask"
    /\ pc' = "done"
    /\ result' = RequestError
    /\ UNCHANGED <<task, hasCallback, lastProgress, reported, getTaskCalls,
                   sleepsStarted, sleepsElapsed, observed>>
    /\ UNCHANGED <<plannerVars, pairVars, web3Vars>>
    /\ UNCHANGED pipelineVars

\* A timer created by setTimeout fires; nothing awaits its promise.
TimerFires ==
    /\ sleepsElapsed < sleepsStarted
    /\ sleepsElapsed' = sleepsElapsed + 1
    /\ UNCHANGED <<pc, task, hasCallback, lastProgress, reported, getTaskCalls,
                   sleepsStarted, result, observed>>
    /\ UNCHANGED <<plannerVars, pairVars, web3Vars>>
    /\ UNCHANGED pipelineVars

Init ==
    /\ inAsset = [size |-> Undef, hasTracks |-> FALSE, tracks |-> <<>>]
    /\ inSizeLimit = Undef
    /\ inMinBitrate = Undef
    /\ InitPlannerResults
    /\ InitPollerVars
    /\ InitPipelineVars
    /\ NoEnvironment

Next == WaitTask \/ GetTaskResolve \/ GetTaskReject \/ TimerFires

Spec == Init /\ [][Next]_vars

\* waitTask where every getTask call eventually responds: a pending request
\* is resolved or rejected.  The remote task reaches a terminal phase within
\* MaxPolls polls (see Observable).  Nothing awaits the poll timers, so their
\* firing is left out.
NextLive == WaitTask \/ GetTaskResolve \/ GetTaskReject

SpecLive == Init /\ [][NextLive]_vars /\ WF_vars(GetTaskResolve \/ GetTaskReject)

(***************************************************************************)
(* Pipeline operations: FullMinter.createNft and Uploader.useFile with     *)
(* Api.createAsset as its handler.  An action runs the code from one       *)
(* resumed await to the next await, or to the return or throw.             *)
(***************************************************************************)

\* The awaits of requests to the service, the wallet and the file picker.
RequestStages ==
    {"fileOpen", "getFile", "requestUploadUrl", "uploadFile", "getAsset",
     "transcodeAsset", "getTranscodedAsset", "exportAsset", "getNetwork",
     "getAddress", "mint", "txWait"}

Await(st, tr) == [kind |-> "await", stage |-> st, trace |-> tr, error |-> NoResult]
\* A throw at the await the operation is suspended at, or (at) in a call
\* made after that await resumed.
Fail(err, tr) == [kind |-> "reject", stage |-> stage, trace |-> tr, error |-> err]
FailAt(at, err, tr) == [kind |-> "reject", stage |-> at, trace |-> tr, error |-> err]

\* The operation moves to the await, or rejects with the error, of step;
\* the finally of useFile closes the file on a rejection.
Goto(step) ==
    /\ trace' = step.trace
    /\ stage' = step.stage
    /\ IF step.kind = "reject"
       THEN /\ outcome' = step.error
            /\ proc' = "done"
       ELSE UNCHANGED <<outcome, proc>>

CloseOnExit(step) ==
    IF step.kind = "reject" /\ proc = "useFile" /\ stream = "open"
    THEN "closed" ELSE stream

\* createAsset up to its first await: requestUploadUrl(name).
CreateAssetStep(tr) ==
    Await("requestUploadUrl", Append(tr, Event("requestUploadUrl", Absent)))

\* exportToIPFS(asset.id, args.nftMetadata) up to its first await.
ExportStep(a, tr) ==
    IF args.nftMetadata # Absent /\ ~JsonParses(args.nftMetadata)
    THEN FailAt("exportToIPFS", Throw(<<"SyntaxError: JSON.parse">>), tr)
    ELSE Await("exportAsset", Append(tr, Event("exportAsset", a.id)))

\* createNft from the return of createAsset up to the next await:
\* nftNormalize(asset) unless skipNormalize, then exportToIPFS.
NormalizeStep(a, tr) ==
    LET check == checkNftNormalize(a, Undef)
    IN IF Normalizes(args) /\ ShouldTranscode(check)
       THEN Await("transcodeAsset",
                  Append(tr, [Event("transcodeAsset", a.id)
                                EXCEPT !.profile = check.desiredProfile]))
       ELSE ExportStep(a, tr)

\* NormalizedAsset that leaves the imported asset in the variable.
NormalizedAsset_Original(original, refetched) == original

\* asset = await this.api.nftNormalize(asset), when a transcode was made: the
\* asset that getAsset(transcode.asset.id) returned.
NormalizedAsset(original, refetched) == refetched

\* videoNft.mint(owner, tokenUri) is called: the transaction goes to the signer.
SendMint(owner) ==
    /\ sentTx' = Append(sentTx,
                        [contract |-> ResolveContract(args.mint.contractAddress,
                                                       web3.chainId),
                         owner |-> owner,
                         tokenUri |-> TokenUriOf(exportIpfs)])
    /\ Goto(Await("mint", Append(trace, Event("mint", TokenUriOf(exportIpfs)))))

\* The entry of the trace for a waitTask that returned the task t.
Waited(t) == [Event("waited", t.type) EXCEPT !.phase = t.status.phase]

\* The locals of a waitTask call that has returned are gone.
ForgetWaitTask ==
    /\ pc' = "idle"
    /\ task' = IdleTask
    /\ hasCallback' = FALSE
    /\ lastProgress' = 0
    /\ reported' = <<>>
    /\ getTaskCalls' = 0
    /\ result' = NoResult
    /\ observed' = <<>>
    /\ UNCHANGED <<sleepsStarted, sleepsElapsed>>

\* this.waitTask(t, reportProgress) is called and runs up to its first await.
CallWaitTask(t, cb) ==
    /\ hasCallback' = cb
    /\ RunLoop(t, cb)
    /\ UNCHANGED sleepsElapsed

CreateNft ==
    /\ proc = "none"
    /\ \E a \in Args :
         /\ args' = a
         /\ IF a.file = "path"
            THEN IF isBrowser
                 THEN /\ Goto(FailAt("openFile",
                                     Throw(<<"openFile is only supported in node.js">>),
                                     trace))
                      /\ UNCHANGED stream
                 ELSE /\ stream' = "open"
                      /\ proc' = "createNft"
                      /\ trace' = CreateAssetStep(trace).trace
                      /\ stage' = "requestUploadUrl"
                      /\ UNCHANGED outcome
            ELSE IF a.file = "stream"
            THEN /\ proc' = "createNft"
                 /\ trace' = CreateAssetStep(trace).trace
                 /\ stage' = "requestUploadUrl"
                 /\ UNCHANGED <<outcome, stream>>
            ELSE IF ~isBrowser
            THEN /\ Goto(FailAt("pickFile",
                                Throw(<<"pickFile is only supported in the browser">>),
                                trace))
                 /\ UNCHANGED stream
            ELSE /\ proc' = "createNft"
                 /\ stage' = "fileOpen"
                 /\ UNCHANGED <<trace, outcome, stream>>
    /\ UNCHANGED <<isBrowser, web3, netChain, uploadTask, curAsset, exportIpfs, sentTx>>
    /\ UNCHANGED <<plannerVars, pollerVars, pairVars, web3Vars>>

\* uploader.useFile(filename, file => sdk.createAsset(assetName, file, ...))
UseFile ==
    /\ proc = "none"
    /\ IF isBrowser
       THEN /\ Goto(FailAt("useFile",
                           Throw(<<"useFile is only supported in node.js">>), trace))
            /\ UNCHANGED stream
       ELSE /\ stream' = "open"
            /\ proc' = "useFile"
            /\ trace' = CreateAssetStep(trace).trace
            /\ stage' = "requestUploadUrl"
            /\ UNCHANGED outcome
    /\ UNCHANGED <<isBrowser, web3, netChain, args, uploadTask, curAsset, exportIpfs, sentTx>>
    /\ UNCHANGED <<plannerVars, pollerVars, pairVars, web3Vars>>

\* pickFile: fileOpen resolved, handle?.getFile() is awaited.
FileOpenResolve ==
    /\ proc = "createNft" /\ stage = "fileOpen"
    /\ stage' = "getFile"
    /\ UNCHANGED <<proc, isBrowser, web3, netChain, args, stream, uploadTask, curAsset,
                   exportIpfs, trace, sentTx, outcome>>
    /\ UNCHANGED <<plannerVars, pollerVars, pairVars, web3Vars>>

\* pickFile: getFile resolved with a file, or there was no handle or file.
GetFileResolve ==
    /\ proc = "createNft" /\ stage = "getFile"
    /\ \E file \in BOOLEAN :
         Goto(IF file THEN CreateAssetStep(trace)
              ELSE FailAt("pickFile", Throw(<<"Failed to open file">>), trace))
    /\ UNCHANGED <<isBrowser, web3, netChain, args, stream, uploadTask, curAsset,
                   exportIpfs, sentTx>>
    /\ UNCHANGED <<plannerVars, pollerVars, pairVars, web3Vars>>

\* createAsset: requestUploadUrl resolved, uploadFile(uploadUrl, content) is
\* awaited.
RequestUploadUrlResolve ==
    /\ proc \in {"createNft", "useFile"} /\ stage = "requestUploadUrl"
    /\ \E st \in StageStatuses : uploadTask' = TaskOf("import", st)
    /\ Goto(Await("uploadFile", Append(trace, Event("uploadFile", Absent))))
    /\ UNCHANGED <<isBrowser, web3, netChain, args, stream, curAsset, exportIpfs, sentTx>>
    /\ UNCHANGED <<plannerVars, pollerVars, pairVars, web3Vars>>

\* createAsset: the upload is done (a file stream read to its end closes
\* itself), waitTask(task, ...) is called.
UploadFileResolve ==
    /\ proc \in {"createNft", "useFile"} /\ stage = "uploadFile"
    /\ pc = "idle"
    /\ stream' = IF stream = "open" THEN "closed" ELSE stream
    /\ stage' = "importWait"
    /\ CallWaitTask(uploadTask, TRUE)
    /\ UNCHANGED <<proc, isBrowser, web3, netChain, args, uploadTask, curAsset, exportIpfs,
                   trace, sentTx, outcome>>
    /\ UNCHANGED <<plannerVars, pairVars, web3Vars>>

\* createAsset: waitTask is settled; getAsset(assetId) is awaited.
ImportWaited ==
    /\ proc \in {"createNft", "useFile"} /\ stage = "importWait"
    /\ Settled(pc)
    /\ IF Rejected(result)
       THEN /\ Goto(Fail(result, trace))
            /\ stream' = CloseOnExit(Fail(result, trace))
            /\ UNCHANGED pollerVars
       ELSE /\ Goto(Await("getAsset",
                          Append(Append(trace, Waited(task)),
                                 Event("getAsset", ImportedAssetId))))
            /\ UNCHANGED stream
            /\ ForgetWaitTask
    /\ UNCHANGED <<isBrowser, web3, netChain, args, uploadTask, curAsset, exportIpfs, sentTx>>
    /\ UNCHANGED <<plannerVars, pairVars, web3Vars>>

\* createAsset returns the asset: useFile closes the file and returns it,
\* createNft goes on to nftNormalize and exportToIPFS.
GetAssetResolve ==
    /\ proc \in {"createNft", "useFile"} /\ stage = "getAsset"
    /\ \E a \in ImportedAssets :
         LET fetched == AssetWith(ImportedAssetId, a)
         IN /\ curAsset' = fetched
            /\ IF proc = "useFile"
               THEN /\ outcome' = [kind |-> "return", value |-> fetched]
                    /\ proc' = "done"
                    /\ stream' = "closed"
                    /\ stage' = "returned"
                    /\ UNCHANGED trace
               ELSE /\ Goto(NormalizeStep(fetched, trace))
                    /\ UNCHANGED stream
    /\ UNCHANGED <<isBrowser, web3, netChain, args, uploadTask, exportIpfs, sentTx>>
    /\ UNCHANGED <<plannerVars, pollerVars, pairVars, web3Vars>>

\* nftNormalize: transcodeAsset resolved, waitTask(transcode.task) is called.
TranscodeAssetResolve ==
    /\ proc = "createNft" /\ stage = "transcodeAsset"
    /\ pc = "idle"
    /\ stage' = "transcodeWait"
    /\ \E st \in StageStatuses : CallWaitTask(TaskOf("transcode", st), FALSE)
    /\ UNCHANGED <<proc, isBrowser, web3, netChain, args, stream, uploadTask, curAsset,
                   exportIpfs, trace, sentTx, outcome>>
    /\ UNCHANGED <<plannerVars, pairVars, web3Vars>>

\* nftNormalize: waitTask is settled; getAsset(transcode.asset.id) is awaited.
TranscodeWaited ==
    /\ proc = "createNft" /\ stage = "transcodeWait"
    /\ Settled(pc)
    /\ IF Rejected(result)
       THEN /\ Goto(Fail(result, trace))
            /\ UNCHANGED pollerVars
       ELSE /\ Goto(Await("getTranscodedAsset",
                          Append(Append(trace, Waited(task)),
                                 Event("getAsset", TranscodedAssetId))))
            /\ ForgetWaitTask
    /\ UNCHANGED <<isBrowser, web3, netChain, args, stream, uploadTask, curAsset,
                   exportIpfs, sentTx>>
    /\ UNCHANGED <<plannerVars, pairVars, web3Vars>>

\* nftNormalize returns the new asset; createNft goes on to exportToIPFS.
GetTranscodedAssetResolve ==
    /\ proc = "createNft" /\ stage = "getTranscodedAsset"
    /\ \E a \in TranscodedAssets :
         LET asset == NormalizedAsset(curAsset, AssetWith(TranscodedAssetId, a))
         IN /\ curAsset' = asset
            /\ Goto(ExportStep(asset, trace))
    /\ UNCHANGED <<isBrowser, web3, netChain, args, stream, uploadTask, exportIpfs, sentTx>>
    /\ UNCHANGED <<plannerVars, pollerVars, pairVars, web3Vars>>

\* exportToIPFS: exportAsset resolved, waitTask(task) is called.
ExportAssetResolve ==
    /\ proc = "createNft" /\ stage = "exportAsset"
    /\ pc = "idle"
    /\ stage' = "exportWait"
    /\ \E st \in StageStatuses : CallWaitTask(TaskOf("export", st), FALSE)
    /\ UNCHANGED <<proc, isBrowser, web3, netChain, args, stream, uploadTask, curAsset,
                   exportIpfs, trace, sentTx, outcome>>
    /\ UNCHANGED <<plannerVars, pairVars, web3Vars>>

\* exportToIPFS returns task.output?.export?.ipfs; createNft takes its
\* nftMetadataUrl and calls web3.mintNft, which runs up to getNetwork().
ExportWaited ==
    /\ proc = "createNft" /\ stage = "exportWait"
    /\ Settled(pc)
    /\ IF Rejected(result)
       THEN /\ Goto(Fail(result, trace))
            /\ UNCHANGED exportIpfs
            /\ UNCHANGED pollerVars
       ELSE /\ \E ipfs \in IpfsOutputs :
                 LET tr == Append(trace, Waited(task))
                     start == MintNftStart(web3, args.mint.contractAddress)
                 IN /\ exportIpfs' = ipfs
                    /\ Goto(IF ~ipfs.present
                            THEN FailAt("createNft",
                                        Throw(<<"TypeError: Cannot destructure ",
                                                "property 'nftMetadataUrl'">>), tr)
                            ELSE IF start.kind = "throw"
                            THEN FailAt("mintNft", start, tr)
                            ELSE Await("getNetwork",
                                       Append(tr, Event("getNetwork", Absent))))
            /\ ForgetWaitTask
    /\ UNCHANGED <<isBrowser, web3, netChain, args, stream, uploadTask, curAsset, sentTx>>
    /\ UNCHANGED <<plannerVars, pairVars, web3Vars>>

\* mintNft: getNetwork resolved; the chain IDs are compared, then the owner is
\* the argument to, or the signer's address, which is awaited.
GetNetworkResolve ==
    /\ proc = "createNft" /\ stage = "getNetwork"
    /\ LET currChainId == toHexChainId(NumberChainId(netChain))
       IN IF ~ChainMatches(currChainId, web3.chainId)
          THEN /\ Goto(FailAt("mintNft", InconsistentChain(web3, currChainId),
                              trace))
               /\ UNCHANGED sentTx
          ELSE IF args.mint.to # Absent
          THEN SendMint(args.mint.to)
          ELSE /\ Goto(Await("getAddress",
                             Append(trace, Event("getAddress", Absent))))
               /\ UNCHANGED sentTx
    /\ UNCHANGED <<isBrowser, web3, netChain, args, stream, uploadTask, curAsset, exportIpfs>>
    /\ UNCHANGED <<plannerVars, pollerVars, pairVars, web3Vars>>

\* mintNft: signer.getAddress() resolved; videoNft.mint(owner, tokenUri).
GetAddressResolve ==
    /\ proc = "createNft" /\ stage = "getAddress"
    /\ SendMint(SignerAddress)
    /\ UNCHANGED <<isBrowser, web3, netChain, args, stream, uploadTask, curAsset, exportIpfs>>
    /\ UNCHANGED <<plannerVars, pollerVars, pairVars, web3Vars>>

\* mintNft returns the transaction; getMintedNftInfo(tx) awaits tx.wait().
MintResolve ==
    /\ proc = "createNft" /\ stage = "mint"
    /\ Goto(Await("txWait", Append(trace, Event("txWait", Absent))))
    /\ UNCHANGED <<isBrowser, web3, netChain, args, stream, uploadTask, curAsset,
                   exportIpfs, sentTx>>
    /\ UNCHANGED <<plannerVars, pollerVars, pairVars, web3Vars>>

\* getMintedNftInfo: the receipt arrived; createNft returns the NFT info.
TxWaitResolve ==
    /\ proc = "createNft" /\ stage = "txWait"
    /\ outcome' = [kind |-> "return",
                   value |-> [contractAddress |-> sentTx[Len(sentTx)].contract]]
    /\ proc' = "done"
    /\ stage' = "returned"
    /\ UNCHANGED <<isBrowser, web3, netChain, args, stream, uploadTask, curAsset,
                   exportIpfs, trace, sentTx>>
    /\ UNCHANGED <<plannerVars, pollerVars, pairVars, web3Vars>>

\* The awaited request is rejected: the operation rejects with its error.  A
\* file stream whose upload failed is closed if the failure was its own.
RequestReject ==
    /\ proc \in {"createNft", "useFile"} /\ stage \in RequestStages
    /\ Goto(Fail(Throw(<<"Request failed: ", stage>>), trace))
    /\ \E destroyed \in BOOLEAN :
         stream' = IF stream = "open" /\ (proc = "useFile" \/
                                          (stage = "uploadFile" /\ destroyed))
                   THEN "closed" ELSE stream
    /\ UNCHANGED <<isBrowser, web3, netChain, args, uploadTask, curAsset, exportIpfs, sentTx>>
    /\ UNCHANGED <<plannerVars, pollerVars, pairVars, web3Vars>>

InitPipeline ==
    /\ isBrowser \in BOOLEAN
    /\ web3 \in Web3Configs
    /\ netChain \in NetChainIds
    /\ InitPipelineVars
    /\ InitPollerVars
    /\ InitPlannerResults
    /\ inAsset = [size |-> Undef, hasTracks |-> FALSE, tracks |-> <<>>]
    /\ inSizeLimit = Undef
    /\ inMinBitrate = Undef

NextPipeline ==
    \/ CreateNft
    \/ UseFile
    \/ FileOpenResolve
    \/ GetFileResolve
    \/ RequestUploadUrlResolve
    \/ UploadFileResolve
    \/ ImportWaited
    \/ GetAssetResolve
    \/ TranscodeAssetResolve
    \/ TranscodeWaited
    \/ GetTranscodedAssetResolve
    \/ ExportAssetResolve
    \/ ExportWaited
    \/ GetNetworkResolve
    \/ GetAddressResolve
    \/ MintResolve
    \/ TxWaitResolve
    \/ RequestReject
    \/ GetTaskResolve
    \/ GetTaskReject
    \/ TimerFires

SpecPipeline == InitPipeline /\ [][NextPipeline]_vars

(***************************************************************************)
(* Two waitTask calls on different tasks, interleaved at their awaits.     *)
(***************************************************************************)

\* LastProgressOf for a lastProgress kept in one place for all calls.
LastProgressOf_Shared(i) == invocations[1].lastProgress

\* let lastProgress = 0: a local variable of the call i.
LastProgressOf(i) == invocations[i].lastProgress

\* waitTask call s from the top of its loop, holding task t and reading last
\* as lastProgress, up to its next await or its return or throw.
LoopStep(s, t, last) ==
    LET seen == [s EXCEPT !.task = t, !.observed = Append(@, t)]
    IN IF LoopCondition(t)
       THEN LET progress == t.status.progress
                report == ShouldReport(progress, last)
            IN [seen EXCEPT
                  !.reported = IF report /\ s.hasCallback
                               THEN Append(@, progress) ELSE @,
                  !.lastProgress = IF report THEN progress ELSE @,
                  !.getTaskCalls = @ + 1,
                  !.pc = "getTask"]
       ELSE [seen EXCEPT !.pc = "done", !.result = WaitTaskResult(t)]

PairObservable(i) ==
    IF invocations[i].getTaskCalls < MaxPairPolls THEN PairStatuses
    ELSE PairTerminalStatuses

\* Call i runs its loop on task t; a pass through the loop body starts a timer.
PairRun(i, s, t) ==
    LET next == LoopStep(s, t, IF s.pc = "idle" THEN 0 ELSE LastProgressOf(i))
    IN /\ invocations' = [invocations EXCEPT ![i] = next]
       /\ sleepsStarted' = IF next.pc = "getTask" THEN sleepsStarted + 1
                           ELSE sleepsStarted
       /\ UNCHANGED <<pc, task, hasCallback, lastProgress, reported, getTaskCalls,
                      sleepsElapsed, result, observed>>
       /\ UNCHANGED <<plannerVars, pipelineVars, web3Vars>>

PairWaitTask ==
    \E i \in Invocations :
        /\ invocations[i].pc = "idle"
        /\ \E st \in PairObservable(i), cb \in BOOLEAN :
              PairRun(i, [NewInvocation EXCEPT !.hasCallback = cb], PairTask(i, st))

PairGetTaskResolve ==
    \E i \in Invocations :
        /\ invocations[i].pc = "getTask"
        /\ \E st \in PairObservable(i) : PairRun(i, invocations[i], PairTask(i, st))

PairGetTaskReject ==
    \E i \in Invocations :
        /\ invocations[i].pc = "getTask"
        /\ invocations' = [invocations EXCEPT ![i].pc = "done",
                                              ![i].result = RequestError]
        /\ UNCHANGED pollerVars
        /\ UNCHANGED <<plannerVars, pipelineVars, web3Vars>>

NextPair == PairWaitTask \/ PairGetTaskResolve \/ PairGetTaskReject \/ TimerFires

SpecPair == Init /\ [][NextPair]_vars

(***************************************************************************)
(* The wallet and the chain: mint transactions, getMintedNftInfo and       *)
(* switchOrAddChain.                                                       *)
(***************************************************************************)

\* An account sends a transaction calling mint(owner, tokenURI).
ContractMint ==
    /\ lastTx.nonce < MaxTxs
    /\ \E sender \in Accounts, owner \in Accounts, tokenURI \in TokenUris :
          LET call == mint(videoNft, sender, owner, tokenURI)
          IN /\ videoNft' = call.storage
             /\ mintLog' = mintLog \o call.logs
             /\ lastTx' = [nonce |-> lastTx.nonce + 1, sender |-> sender,
                           owner |-> owner, tokenURI |-> tokenURI,
                           reverted |-> call.reverted,
                           returned |-> call.returned]
    /\ UNCHANGED <<nftInfo, wallet>>
    /\ UNCHANGED <<plannerVars, pollerVars, pipelineVars, pairVars>>

\* The receipt of the last mint transaction, if it was not reverted.
MintReceipts ==
    IF lastTx.nonce = 0 \/ lastTx.reverted THEN {}
    ELSE {ReceiptOf(getBuiltinChain(NumberChainId(137)).defaultContract,
                    <<TransferEv, MintEv(<<mintLog[Len(mintLog)].sender,
                                           mintLog[Len(mintLog)].owner,
                                           mintLog[Len(mintLog)].tokenURI,
                                           mintLog[Len(mintLog)].tokenId>>)>>)}

\* getMintedNftInfo(tx) is called and awaits tx.wait().
GetMintedNftInfo ==
    /\ nftInfo.pc = "idle"
    /\ nftInfo' = [pc |-> "txWait"]
    /\ UNCHANGED <<videoNft, mintLog, lastTx, wallet>>
    /\ UNCHANGED <<plannerVars, pollerVars, pipelineVars, pairVars>>

\* tx.wait() resolved with the receipt: getMintedNftInfo returns the info.
ReceiptResolve ==
    /\ nftInfo.pc = "txWait"
    /\ \E receipt \in Receipts \cup MintReceipts :
          nftInfo' = [pc |-> "done", receipt |-> receipt,
                      result |-> [kind |-> "return",
                                  value |-> getMintedNftInfo(receipt, web3.chainId)]]
    /\ UNCHANGED <<videoNft, mintLog, lastTx, wallet>>
    /\ UNCHANGED <<plannerVars, pollerVars, pipelineVars, pairVars>>

\* tx.wait() rejected (the transaction was reverted): getMintedNftInfo
\* rejects with the same error.
ReceiptReject ==
    /\ nftInfo.pc = "txWait"
    /\ nftInfo' = [pc |-> "done", result |-> Throw(<<"transaction failed">>)]
    /\ UNCHANGED <<videoNft, mintLog, lastTx, wallet>>
    /\ UNCHANGED <<plannerVars, pollerVars, pipelineVars, pairVars>>

\* switchOrAddChain(ethereum, chainSpec) is called: switchChain throws if the
\* provider has no request method, which the catch clause rethrows; otherwise
\* wallet_switchEthereumChain is requested and awaited.
SwitchOrAddChain ==
    /\ wallet.pc = "idle"
    /\ \E hasRequest \in BOOLEAN :
          wallet' =
            IF hasRequest
            THEN [pc |-> "switch", requests |-> <<"wallet_switchEthereumChain">>,
                  switchErr |-> NoResult, addErr |-> NoResult, result |-> NoResult]
            ELSE LET err == Throw(<<"ethereum provider does not support request">>)
                 IN [pc |-> "done", requests |-> <<>>, switchErr |-> err,
                     addErr |-> NoResult,
                     result |-> IF ShouldAdd(err) THEN NoResult ELSE err]
    /\ UNCHANGED <<videoNft, mintLog, lastTx, nftInfo>>
    /\ UNCHANGED <<plannerVars, pollerVars, pipelineVars, pairVars>>

\* The switch request resolved: return { added: false }.
SwitchResolve ==
    /\ wallet.pc = "switch"
    /\ wallet' = [wallet EXCEPT !.pc = "done",
                                !.result = [kind |-> "return", added |-> FALSE]]
    /\ UNCHANGED <<videoNft, mintLog, lastTx, nftInfo>>
    /\ UNCHANGED <<plannerVars, pollerVars, pipelineVars, pairVars>>

\* The switch request was rejected: the error is rethrown unless its code is
\* 4902, in which case wallet_addEthereumChain is requested and awaited.
SwitchReject ==
    /\ wallet.pc = "switch"
    /\ \E code \in ErrorCodes :
          LET err == WalletError(code)
          IN wallet' =
               IF ShouldAdd(err)
               THEN [wallet EXCEPT
                       !.pc = "add", !.switchErr = err,
                       !.requests = Append(@, "wallet_addEthereumChain")]
               ELSE [wallet EXCEPT !.pc = "done", !.switchErr = err, !.result = err]
    /\ UNCHANGED <<videoNft, mintLog, lastTx, nftInfo>>
    /\ UNCHANGED <<plannerVars, pollerVars, pipelineVars, pairVars>>

\* The add request resolved: return { added: true }.
AddResolve ==
    /\ wallet.pc = "add"
    /\ wallet' = [wallet EXCEPT !.pc = "done",
                                !.result = [kind |-> "return", added |-> TRUE]]
    /\ UNCHANGED <<videoNft, mintLog, lastTx, nftInfo>>
    /\ UNCHANGED <<plannerVars, pollerVars, pipelineVars, pairVars>>

\* The add request was rejected: switchOrAddChain rejects with its error.
AddReject ==
    /\ wallet.pc = "add"
    /\ \E code \in ErrorCodes :
          wallet' = [wallet EXCEPT !.pc = "done", !.addErr = WalletError(code),
                                  !.result = WalletError(code)]
    /\ UNCHANGED <<videoNft, mintLog, lastTx, nftInfo>>
    /\ UNCHANGED <<plannerVars, pollerVars, pipelineVars, pairVars>>

InitWeb3 ==
    /\ web3 \in Web3Chains
    /\ isBrowser = FALSE
    /\ netChain = 1
    /\ InitPlannerResults
    /\ inAsset = [size |-> Undef, hasTracks |-> FALSE, tracks |-> <<>>]
    /\ inSizeLimit = Undef
    /\ inMinBitrate = Undef
    /\ InitPollerVars
    /\ InitPipelineVars

NextWeb3 ==
    \/ ContractMint
    \/ GetMintedNftInfo
    \/ ReceiptResolve
    \/ ReceiptReject
    \/ SwitchOrAddChain
    \/ SwitchResolve
    \/ SwitchReject
    \/ AddResolve
    \/ AddReject

SpecWeb3 == InitWeb3 /\ [][NextWeb3]_vars

(***************************************************************************)
(* Properties of the bitrate planner (checked under SpecPlanner).          *)
(***************************************************************************)

\* The size and limit getDesiredBitrate compares, as the arguments give them.
GivenSize == IF inAsset.size = Undef THEN 0 ELSE inAsset.size
GivenSizeLimit == IF inSizeLimit = Undef THEN 100000000 ELSE inSizeLimit
GivenMinBitrate == IF inMinBitrate = Undef THEN 100000 ELSE inMinBitrate

\* The asset has tracks and track i is its first track of the given type.
IsFirstOfType(i, type) ==
    /\ inAsset.hasTracks
    /\ i \in 1..Len(inAsset.tracks)
    /\ inAsset.tracks[i].type = type
    /\ \A j \in 1..(i - 1) : inAsset.tracks[j].type # type

HasNoTrack(type) == ~\E i \in 1..Len(inAsset.tracks) : IsFirstOfType(i, type)

\* The asset has no video track, or its video track has no bitrate.
HasNoVideoBitrate ==
    \A i \in 1..Len(inAsset.tracks) :
        IsFirstOfType(i, "video") => inAsset.tracks[i].bitrate = Undef

\* The video bitrate v and the audio bitrate a (0 without an audio track).
VideoBitrateIs(v) ==
    \E i \in 1..Len(inAsset.tracks) :
        IsFirstOfType(i, "video") /\ inAsset.tracks[i].bitrate = v
AudioBitrateIs(a) ==
    \/ \E i \in 1..Len(inAsset.tracks) :
          /\ IsFirstOfType(i, "audio")
          /\ a = (IF inAsset.tracks[i].bitrate = Undef THEN 0
                  ELSE inAsset.tracks[i].bitrate)
    \/ HasNoTrack("audio") /\ a = 0

BitrateValues == {b \in {t.bitrate : t \in VideoTracks \cup AudioTracks} : b > 0}

\* C1: for every asset whose size (0 when absent) is at most sizeLimit,
\* getDesiredBitrate returns null, whatever its tracks, and does not throw.
C1_WithinLimitReturnsNull ==
    (bitrateRes # NotCalled /\ GivenSize <= GivenSizeLimit)
        => bitrateRes = NullResult

\* An asset exactly at the limit, with video and audio bitrates, gave null.
C1_Witness ==
    /\ bitrateRes = NullResult
    /\ inAsset.size = 100 /\ inSizeLimit = 100
    /\ VideoBitrateIs(300) /\ AudioBitrateIs(28)

\* C2: for every asset with no video track, or whose video track has no
\* bitrate, getDesiredBitrate returns null for every size and limit; it never
\* throws for such an asset.
C2_NoVideoBitrateReturnsNull ==
    (bitrateRes # NotCalled /\ HasNoVideoBitrate) => bitrateRes = NullResult

\* An asset far above the limit with only an audio track gave null.
C2_Witness ==
    /\ bitrateRes = NullResult
    /\ inAsset.size = 2000000000 /\ inSizeLimit = 100
    /\ inAsset.hasTracks /\ HasNoTrack("video") /\ AudioBitrateIs(128000)

\* C3: for every asset over the limit with a video bitrate, getDesiredBitrate
\* throws exactly when the desired bitrate is strictly below minBitrate; a
\* desired bitrate equal to minBitrate is returned.
C3_ThrowsIffBelowMin ==
    \A v \in BitrateValues, a \in BitrateValues \cup {0} :
        (/\ bitrateRes # NotCalled
         /\ GivenSize > GivenSizeLimit
         /\ VideoBitrateIs(v) /\ AudioBitrateIs(a))
        => LET d == DesiredBitrateOf(v, a, GivenSizeLimit, GivenSize)
           IN /\ (bitrateRes = ThrowResult) <=> (d < GivenMinBitrate)
              /\ (d >= GivenMinBitrate) => bitrateRes = NumberResult(d)

\* The desired bitrate 136 was returned against a minBitrate of 136.
C3_Witness ==
    /\ bitrateRes = NumberResult(136)
    /\ inMinBitrate = 136
    /\ inAsset.size = 200 /\ inSizeLimit = 100

\* Exact arithmetic: <<q, r>> with x * y = q * m + r and 0 <= r < m, for x, y >= 0 and m > 0.
RECURSIVE MulDivMod(_, _, _)
MulDivMod(x, y, m) ==
    IF y = 0 THEN <<0, 0>>
    ELSE LET h  == MulDivMod(x, y \div 2, m)
             c2 == IF h[2] >= m - h[2] THEN 1 ELSE 0
             dq == 2 * h[1] + c2
             dr == IF c2 = 1 THEN h[2] - (m - h[2]) ELSE h[2] + h[2]
             xq == x \div m
             xr == x % m
             c1 == IF dr >= m - xr THEN 1 ELSE 0
         IN IF y % 2 = 0 THEN <<dq, dr>>
            ELSE <<dq + xq + c1, IF c1 = 1 THEN dr - (m - xr) ELSE dr + xr>>

\* C4: for every asset over the limit with video bitrate v > 0 and audio
\* bitrate a, a returned number equals floor((v + a) * sizeLimit / size) - a;
\* size 200_000_000, v 2_000_000, a 128_000, limit 100_000_000 gives 936_000.
C4_DesiredBitrateFormula ==
    \A v \in BitrateValues, a \in BitrateValues \cup {0} :
        (/\ bitrateRes.kind = "number"
         /\ GivenSize > GivenSizeLimit
         /\ VideoBitrateIs(v) /\ AudioBitrateIs(a))
        => /\ bitrateRes.value = MulDivMod(v + a, GivenSizeLimit, GivenSize)[1] - a
           /\ (/\ GivenSize = 200000000 /\ GivenSizeLimit = 100000000
               /\ v = 2000000 /\ a = 128000)
                => bitrateRes.value = 936000

\* The example of C4 is computed as the claim says.
C4_ExampleHolds ==
    (/\ bitrateRes # NotCalled
     /\ inAsset.size = 200000000 /\ inSizeLimit = Undef
     /\ VideoBitrateIs(2000000) /\ AudioBitrateIs(128000))
        => bitrateRes = NumberResult(936000)

\* A returned number is the exact value of C4 or differs from it by one.
C4_WithinOne ==
    \A v \in BitrateValues, a \in BitrateValues \cup {0} :
        (/\ bitrateRes.kind = "number"
         /\ GivenSize > GivenSizeLimit
         /\ VideoBitrateIs(v) /\ AudioBitrateIs(a))
        => LET exact == MulDivMod(v + a, GivenSizeLimit, GivenSize)[1] - a
           IN bitrateRes.value \in {exact - 1, exact, exact + 1}

\* The track values makeProfile destructures, with its defaults.
ProfileInputs(b, w, h) ==
    \/ \E i \in 1..Len(inAsset.tracks) :
          /\ IsFirstOfType(i, "video")
          /\ b = (IF inAsset.tracks[i].bitrate = Undef THEN 1
                  ELSE inAsset.tracks[i].bitrate)
          /\ w = (IF inAsset.tracks[i].width = Undef THEN 0
                  ELSE inAsset.tracks[i].width)
          /\ h = (IF inAsset.tracks[i].height = Undef THEN 0
                  ELSE inAsset.tracks[i].height)
    \/ HasNoTrack("video") /\ b = 1 /\ w = 0 /\ h = 0

C6_CheckNftNormalizeResult ==
    checkRes.kind # "none"
        => LET r == getDesiredBitrate(inAsset, inSizeLimit, Undef)
           IN /\ checkRes.kind = "return"
              /\ (r.kind = "null") =>
                    (checkRes.possible /\ checkRes.desiredProfile = NoProfile)
              /\ (r.kind = "throw") =>
                    (~checkRes.possible /\ checkRes.desiredProfile = NoProfile)
              /\ (r.kind = "number") =>
                    /\ checkRes.possible
                    /\ checkRes.desiredProfile # NoProfile
                    /\ checkRes.desiredProfile = makeProfile(inAsset, r.value)
              /\ ~checkRes.possible => checkRes.desiredProfile = NoProfile

\* An asset that can be shrunk got a profile, and one that cannot got none.
C6_Witness ==
    /\ checkRes.kind = "return"
    /\ \/ checkRes.possible /\ checkRes.desiredProfile.bitrate = 936000
       \/ ~checkRes.possible /\ inAsset.size = 2000000000

(***************************************************************************)
(* Properties of the task poller (checked under Spec).                     *)
(***************************************************************************)

LastObserved == observed[Len(observed)]

\* C7: when the polled task is observed in phase 'failed', at the call or
\* after any number of polls, waitTask polls no further and rejects with an
\* error whose message carries that state's status.errorMessage; it returns
\* no task.
C7_FailedTaskRejects ==
    \A i \in 1..Len(observed) :
        observed[i].status.phase = "failed"
        => /\ i = Len(observed)
           /\ pc = "done"
           /\ result.kind = "throw"
           /\ result.message =
                <<observed[i].type, " task failed. error: ",
                  IF observed[i].status.errorMessage = Absent THEN "undefined"
                  ELSE observed[i].status.errorMessage>>

\* A task failed with "encode error" after two polls and waitTask threw.
C7_Witness ==
    /\ pc = "done" /\ getTaskCalls = 2
    /\ LastObserved.status.phase = "failed"
    /\ LastObserved.status.errorMessage = "encode error"
    /\ result.kind = "throw"

\* C8: when the polled task is observed in phase 'completed', waitTask returns
\* the task object of that last observation, with its output: never an earlier
\* snapshot, and not the initial argument once a re-fetch has happened.
C8_ReturnsLastObserved ==
    \A i \in 1..Len(observed) :
        observed[i].status.phase = "completed"
        => /\ i = Len(observed)
           /\ pc = "done"
           /\ result = [kind |-> "return", task |-> observed[i]]
           /\ result.task.output = "output"
           /\ i > 1 => result.task # observed[1]

\* A task completed after three polls and the re-fetched object was returned.
C8_Witness ==
    /\ pc = "done" /\ getTaskCalls = 3
    /\ result.kind = "return"
    /\ result.task = LastObserved
    /\ result.task.status.progress = MaxProgress

\* C9: waitTask called with a task that is already 'completed' returns at
\* once: no getTask call, no sleep started, no reportProgress call.
C9_CompletedReturnsImmediately ==
    (observed # <<>> /\ observed[1].status.phase = "completed")
        => /\ pc = "done"
           /\ result = [kind |-> "return", task |-> observed[1]]
           /\ getTaskCalls = 0
           /\ sleepsStarted = 0
           /\ reported = <<>>

\* waitTask was called with a callback and a completed task carrying progress.
C9_Witness ==
    /\ pc = "done" /\ hasCallback
    /\ Len(observed) = 1
    /\ observed[1].status.phase = "completed"
    /\ observed[1].status.progress = MaxProgress

\* The non-zero progress values of the states observed inside the loop (the
\* states that are neither completed nor failed), in order.
RECURSIVE LoopProgress(_)
LoopProgress(obs) ==
    IF obs = <<>> THEN <<>>
    ELSE LET t == obs[Len(obs)]
             front == LoopProgress(SubSeq(obs, 1, Len(obs) - 1))
         IN IF /\ t.status.phase \notin {"completed", "failed"}
               /\ t.status.progress > 0
            THEN Append(front, t.status.progress)
            ELSE front

\* A sequence without the elements that repeat their predecessor.
RECURSIVE Collapse(_)
Collapse(seq) ==
    IF Len(seq) <= 1 THEN seq
    ELSE LET front == Collapse(SubSeq(seq, 1, Len(seq) - 1))
         IN IF seq[Len(seq)] = seq[Len(seq) - 1] THEN front
            ELSE Append(front, seq[Len(seq)])

NonDecreasing(seq) == \A i, j \in 1..Len(seq) : i < j => seq[i] <= seq[j]
StrictlyIncreasing(seq) == \A i, j \in 1..Len(seq) : i < j => seq[i] < seq[j]

\* C10 as stated: reportProgress is invoked exactly once per distinct progress
\* value observed, and the values passed never decrease and never repeat.
C10_Original ==
    hasCallback
        => /\ StrictlyIncreasing(reported)
           /\ \A p \in 1..MaxProgress :
                 (\E i \in 1..Len(LoopProgress(observed)) :
                     LoopProgress(observed)[i] = p)
                 => Cardinality({k \in 1..Len(reported) : reported[k] = p}) = 1

\* C10 as amended: reportProgress is invoked once for each run of equal
\* non-zero progress values observed inside the loop, so two consecutive calls
\* never pass the same value; when the observed values never decrease, the
\* values passed strictly increase and each distinct one is passed once.
C10_ReportsEachChange ==
    hasCallback
        => /\ reported = Collapse(LoopProgress(observed))
           /\ \A k \in 1..(Len(reported) - 1) : reported[k] # reported[k + 1]
           /\ NonDecreasing(LoopProgress(observed)) => StrictlyIncreasing(reported)

\* The sequence pending, running 1, running 1, running 2, completed yielded
\* the calls 1 then 2.
C10_Witness ==
    /\ pc = "done" /\ hasCallback /\ Len(observed) = 5
    /\ observed[1].status.phase = "pending"
    /\ observed[2].status.progress = 1
    /\ observed[3].status.progress = 1
    /\ observed[4].status.progress = 2
    /\ observed[5].status.phase = "completed"
    /\ reported = <<1, 2>>

\* C11: a task observed in phase 'cancelled' is terminal for waitTask: the
\* loop exits at that observation, no further getTask call is made, and
\* waitTask rejects with a task-failed error as it does for phase 'failed'.
C11_CancelledIsTerminal ==
    \A i \in 1..Len(observed) :
        observed[i].status.phase = "cancelled"
        => /\ i = Len(observed)
           /\ pc = "done"
           /\ result.kind = "throw"

\* C12: a getTask request of waitTask is in flight only when every sleep the
\* loop has started has elapsed, so two consecutive getTask calls are
\* separated by a completed sleep of the poll interval.
C12_PollsAfterSleep ==
    /\ pc = "getTask" => sleepsElapsed = sleepsStarted
    /\ getTaskCalls <= sleepsElapsed

(***************************************************************************)
(* Properties of the pipeline (checked under SpecPipeline).                *)
(***************************************************************************)

\* The positions of the trace that hold a request or event op.
At(op) == {i \in 1..Len(trace) : trace[i].op = op}

\* Before position i, a waitTask on a task of the type returned after it had
\* observed the task in phase 'completed'.
CompletedBefore(type, i) ==
    \E j \in 1..(i - 1) :
        /\ trace[j].op = "waited"
        /\ trace[j].arg = type
        /\ trace[j].phase = "completed"

\* C13: within one createNft run the transcode request is issued only after
\* the import task was observed completed, the export request only after the
\* import task and, if a transcode was requested, the transcode task were
\* observed completed, and the mint transaction only after the export task
\* was observed completed.
C13_StagesInOrder ==
    /\ \A i \in At("transcodeAsset") : CompletedBefore("import", i)
    /\ \A i \in At("exportAsset") :
          /\ CompletedBefore("import", i)
          /\ At("transcodeAsset") # {} => CompletedBefore("transcode", i)
    /\ \A i \in At("mint") : CompletedBefore("export", i)
    /\ sentTx # <<>> => At("mint") # {}

\* A run went through import, transcode and export, each task polled once,
\* and sent the mint transaction.
C13_Witness ==
    /\ proc = "done" /\ outcome.kind = "return"
    /\ At("transcodeAsset") # {} /\ At("exportAsset") # {} /\ Len(sentTx) = 1
    /\ sleepsStarted = 3

\* The stage (1 upload, 2 normalize, 3 export, 4 mint) an await, a call or a
\* request belongs to.
StageRank(st) ==
    IF st \in {"openFile", "pickFile", "fileOpen", "getFile", "requestUploadUrl",
               "uploadFile", "importWait", "getAsset"} THEN 1
    ELSE IF st \in {"transcodeAsset", "transcodeWait", "getTranscodedAsset"} THEN 2
    ELSE IF st \in {"exportToIPFS", "exportAsset", "exportWait", "createNft"} THEN 3
    ELSE 4

EventRank(e) ==
    IF e.op = "waited"
    THEN (IF e.arg = "import" THEN 1 ELSE IF e.arg = "transcode" THEN 2 ELSE 3)
    ELSE IF e.op = "getAsset"
    THEN (IF e.arg = ImportedAssetId THEN 1 ELSE 2)
    ELSE StageRank(e.op)

WaitStages == {"importWait", "transcodeWait", "exportWait"}

\* C14: if a stage of createNft fails (a request is rejected, a task is
\* observed failed, the mint is rejected), createNft rejects with that
\* stage's error, nothing of a later stage has been requested or sent, and
\* createNft never goes on after a waitTask that did not observe 'completed'.
C14_FailureAborts ==
    /\ \A i \in At("waited") : trace[i].phase = "completed"
    /\ (proc = "done" /\ stage \in WaitStages)
          => /\ outcome = result
             /\ outcome.kind = "throw"
             /\ \/ outcome = RequestError
                \/ /\ task.status.phase = "failed"
                   /\ outcome.message =
                        <<task.type, " task failed. error: ", "encode error">>
    /\ (proc = "done" /\ stage \in RequestStages)
          => outcome = [kind |-> "throw", message |-> <<"Request failed: ", stage>>]
    /\ (proc = "done" /\ outcome.kind = "throw")
          => /\ \A i \in 1..Len(trace) : EventRank(trace[i]) <= StageRank(stage)
             /\ StageRank(stage) < 4 => sentTx = <<>>
             /\ Len(sentTx) = Cardinality(At("mint"))

\* The transcode task failed: createNft rejected with its error and requested
\* no export.
C14_Witness ==
    /\ proc = "done" /\ stage = "transcodeWait"
    /\ outcome.message = <<"transcode", " task failed. error: ", "encode error">>
    /\ At("exportAsset") = {}

\* C15: a transcode request is issued only if skipNormalize is not set and
\* checkNftNormalize of the imported asset yields possible = true with a
\* profile; otherwise (skip flag, asset within the limit, no video track,
\* asset too large to shrink) no request is made between the import and the
\* export, and the export is requested for the imported asset, unchanged.
C15_TranscodeOnlyWhenPlanned ==
    LET plan == checkNftNormalize(curAsset, Undef) IN
    /\ \A i \in At("transcodeAsset") :
          /\ ~args.skipNormalize
          /\ trace[i].profile # NoProfile
          /\ trace[i].arg = ImportedAssetId
          /\ trace[i - 1] = Event("getAsset", ImportedAssetId)
    /\ stage \in {"transcodeAsset", "transcodeWait"}
          => /\ plan.possible
             /\ plan.desiredProfile
                  = trace[Len(trace)].profile
             /\ curAsset.size > DefaultSizeLimit
             /\ curAsset.hasTracks
    /\ (stage \in {"exportAsset", "exportWait"} /\ At("transcodeAsset") = {})
          => /\ \/ args.skipNormalize
                \/ curAsset.size <= DefaultSizeLimit
                \/ ~curAsset.hasTracks
                \/ ~plan.possible
             /\ curAsset.id = ImportedAssetId
             /\ curAsset \in {AssetWith(ImportedAssetId, a) : a \in ImportedAssets}
             /\ \A i \in At("exportAsset") :
                   /\ trace[i].arg = ImportedAssetId
                   /\ trace[i - 1] = Event("getAsset", ImportedAssetId)
    /\ (stage \in {"exportAsset", "exportWait"}
          /\ ~args.skipNormalize
          /\ curAsset.id = ImportedAssetId
          /\ curAsset.size > DefaultSizeLimit
          /\ curAsset.hasTracks
          /\ plan.possible)
          => FALSE

\* An asset too large to shrink went to export untouched, without the flag.
C15_Witness ==
    /\ stage = "exportWait" /\ ~args.skipNormalize
    /\ curAsset.size = 2000000000
    /\ ~checkNftNormalize(curAsset, Undef).possible
    /\ At("transcodeAsset") = {}

\* C16: in every createNft run that reaches the mint, the token URI passed
\* to the contract's mint call is the nftMetadataUrl of the run's completed
\* export task, and it is never empty.
C16_MintsExportedUri ==
    \A k \in 1..Len(sentTx) :
        /\ exportIpfs.present
        /\ exportIpfs.nftMetadataUrl # Absent
        /\ sentTx[k].tokenUri = exportIpfs.nftMetadataUrl
        /\ sentTx[k].tokenUri # ""

\* C17: a file stream opened for the upload stage is closed once that stage
\* has ended, whether it succeeded or failed, in a useFile run and in a
\* createNft run that was given a file path.
C17_StreamClosed ==
    (proc = "done" \/ StageRank(stage) > 1 \/ stage = "returned")
        => stream # "open"

\* The number a hexadecimal chain ID stands for.
RECURSIVE ChainNumber(_)
ChainNumber(ds) ==
    IF ds = <<>> THEN 0
    ELSE 16 * ChainNumber(SubSeq(ds, 1, Len(ds) - 1)) + ds[Len(ds)]

\* The default contract of the two built-in chains, by chain number.
DefaultContractOf(n) ==
    IF n = 137 THEN "0x69C53E7b8c41bF436EF5a2D81DB759Dc8bD83b5F"
    ELSE IF n = 80001 THEN "0xA4E1d8FE768d471B048F9d73ff90ED8fcCC03643"
    ELSE Absent

\* The contract address mintNft is to use: the argument, else the default.
WantedContract ==
    IF args.mint.contractAddress \notin {Absent, ""}
    THEN args.mint.contractAddress
    ELSE DefaultContractOf(ChainNumber(web3.chainId))

\* mintNft has been called (the export returned its ipfs output).
MintNftCalled ==
    \E i \in At("waited") : trace[i].arg = "export" /\ exportIpfs.present

\* C18: mintNft sends the mint transaction only if a contract address is
\* resolved (the argument, else the built-in chain's default contract), a
\* provider is configured and the provider's chain ID equals the one the Web3
\* instance was created with; if one of them fails it throws and sends none.
C18_MintGuards ==
    /\ \A k \in 1..Len(sentTx) :
          /\ WantedContract # Absent
          /\ sentTx[k].contract = WantedContract
          /\ web3.hasProvider
          /\ ChainNumber(web3.chainId) = netChain
    /\ (MintNftCalled /\ (WantedContract = Absent \/ ~web3.hasProvider))
          => /\ proc = "done" /\ stage = "mintNft"
             /\ outcome.kind = "throw"
             /\ outcome.message =
                  IF WantedContract = Absent
                  THEN <<"No contract address provided nor builtin chain">>
                  ELSE <<"No Ethereum provider configured">>
             /\ sentTx = <<>>
             /\ At("getNetwork") = {}
    /\ (MintNftCalled /\ WantedContract # Absent /\ web3.hasProvider
          /\ ChainNumber(web3.chainId) # netChain /\ stage # "getNetwork")
          => /\ proc = "done" /\ stage = "mintNft"
             /\ outcome.kind = "throw"
             /\ outcome.message[1] = "Inconsistent chain ID: created for "
             /\ sentTx = <<>>

\* A transaction went to the default contract of Polygon, to the signer.
C18_Witness ==
    /\ Len(sentTx) = 1
    /\ sentTx[1].contract = "0x69C53E7b8c41bF436EF5a2D81DB759Dc8bD83b5F"
    /\ sentTx[1].owner = SignerAddress
    /\ web3.chainId = <<8, 9>> /\ netChain = 137
    /\ args.mint.given /\ args.mint.contractAddress = ""

\* C20: createNft called without mint options sends no mint transaction: a
\* mint transaction is sent only when the caller asked for minting.
C20_MintOnlyWhenAsked ==
    ~args.mint.given => (sentTx = <<>> /\ At("mint") = {})

(***************************************************************************)
(* Properties of two interleaved waitTask calls (checked under SpecPair).  *)
(***************************************************************************)

\* What a waitTask call that runs alone passes to reportProgress, and what it
\* returns or throws, given the task states it observed.
ReportedAlone(s) ==
    IF s.hasCallback THEN Collapse(LoopProgress(s.observed)) ELSE <<>>

ResultAlone(s) ==
    LET last == s.observed[Len(s.observed)]
    IN IF last.status.phase = "failed"
       THEN [kind |-> "throw",
             message |-> <<last.type, " task failed. error: ",
                           last.status.errorMessage>>]
       ELSE [kind |-> "return", task |-> last]

\* C19: two waitTask calls on different tasks, interleaved at their awaits,
\* share no mutable state: each call passes to reportProgress the sequence of
\* values, and returns the task or throws the error, that it would when run
\* alone on the task states it observed, whatever the other call does.
C19_InvocationsIsolated ==
    \A i \in Invocations :
        LET s == invocations[i]
        IN /\ s.reported = ReportedAlone(s)
           /\ \A k \in 1..Len(s.observed) : s.observed[k].id = <<"task-1", "task-2">>[i]
           /\ (s.pc = "done" /\ s.result # RequestError) => s.result = ResultAlone(s)

\* Both calls finished after their polls interleaved: the first reported 1 and
\* then 2 and returned its completed task, the second reported 2 only and
\* threw.
C19_Witness ==
    /\ invocations[1].pc = "done" /\ invocations[2].pc = "done"
    /\ invocations[1].reported = <<1, 2>>
    /\ invocations[2].reported = <<2>>
    /\ invocations[1].result.kind = "return"
    /\ invocations[1].result.task.id = "task-1"
    /\ invocations[2].result.kind = "throw"
    /\ invocations[2].lastProgress = 2

(***************************************************************************)
(* Further properties of the task poller (checked under Spec).             *)
(***************************************************************************)

\* The calls of reportProgress that the observed states call for: a state adds
\* a call exactly when it is not terminal and its progress is present, is not
\* 0 and differs from the value of the last call (0 before the first).
RECURSIVE ReportsCalledFor(_)
ReportsCalledFor(obs) ==
    IF obs = <<>> THEN <<>>
    ELSE LET front == ReportsCalledFor(SubSeq(obs, 1, Len(obs) - 1))
             st == obs[Len(obs)].status
             lastReported == IF front = <<>> THEN 0 ELSE front[Len(front)]
         IN IF /\ st.phase \notin {"completed", "failed"}
               /\ st.progress # Undef
               /\ st.progress # 0
               /\ st.progress # lastReported
            THEN Append(front, st.progress)
            ELSE front

\* C29: waitTask invokes reportProgress exactly when a state observed inside
\* the loop has a non-zero progress that differs from the last reported value
\* (initially 0): a progress of 0 or a missing one is never reported, the
\* progress of the terminal state is never reported, and a value is reported
\* again when it recurs after a different one.  Without a callback nothing is
\* invoked.
C29_ReportsExactlyOnChange ==
    /\ ~hasCallback => reported = <<>>
    /\ hasCallback
          => /\ reported = ReportsCalledFor(observed)
             /\ \A k \in 1..Len(reported) : reported[k] \in 1..MaxProgress
             /\ Len(reported)
                  <= Cardinality({i \in 1..Len(observed) :
                                    observed[i].status.phase
                                        \notin {"completed", "failed"}})

\* Progress 1, 0, 2, 1 and then a completed state carrying a progress were
\* observed: 1, 2 and 1 again were reported, 0 and the last progress were not.
C29_Witness ==
    /\ pc = "done" /\ hasCallback /\ Len(observed) = 5
    /\ observed[1].status.progress = 1
    /\ observed[2].status.progress = 0
    /\ observed[3].status.progress = 2
    /\ observed[4].status.progress = 1
    /\ observed[5].status.phase = "completed"
    /\ observed[5].status.progress = MaxProgress
    /\ reported = <<1, 2, 1>>

\* C28 (checked under SpecLive): if every getTask call eventually responds
\* and the remote task eventually reaches phase 'completed' or 'failed', a
\* waitTask that is polling eventually returns or throws; and waitTask sets no
\* bound on the number of polls: it ends only with a terminal state or with
\* the error of a rejected request, and polls again after every other state.
C28_EventuallySettles ==
    /\ (pc = "getTask") ~> (pc = "done")
    /\ [](pc = "done"
            => \/ result = RequestError
               \/ LastObserved.status.phase \in {"completed", "failed"})
    /\ [][(pc = "getTask" /\ observed' # observed
             /\ LastObserved'.status.phase \notin {"completed", "failed"})
            => (pc' = "getTask" /\ getTaskCalls' = getTaskCalls + 1)]_vars

\* waitTask polled as often as the task stayed non-terminal and returned when
\* it was completed.
C28_Witness ==
    /\ pc = "done" /\ getTaskCalls = MaxPolls
    /\ result.kind = "return"
    /\ \A i \in 1..(Len(observed) - 1) :
          observed[i].status.phase \notin {"completed", "failed"}

(***************************************************************************)
(* A further property of the minting pipeline (checked under SpecPipeline).*)
(***************************************************************************)

\* C24: when normalization produces a profile, nftNormalize requests one
\* transcode task, with that profile and for the imported asset's id, waits
\* until that task is observed completed, and then fetches the asset by the
\* id of the new asset of the transcode response; the export that follows in
\* createNft is requested for the new asset's id, not for the imported one.
C24_NormalizeExportsNewAsset ==
    LET plan == checkNftNormalize(curAsset, Undef) IN
    /\ Cardinality(At("transcodeAsset")) <= 1
    /\ \A i \in At("transcodeAsset") :
          /\ trace[i].arg = ImportedAssetId
          /\ trace[i].profile # NoProfile
          /\ trace[i].profile.name \in {"low-bitrate", "480p", "720p"}
    /\ stage \in {"transcodeAsset", "transcodeWait", "getTranscodedAsset"}
          => /\ curAsset.id = ImportedAssetId
             /\ \A i \in At("transcodeAsset") :
                   trace[i].profile = plan.desiredProfile
    /\ \A i \in 1..Len(trace) :
          trace[i] = Event("getAsset", TranscodedAssetId)
          => /\ trace[i - 1].op = "waited"
             /\ trace[i - 1].arg = "transcode"
             /\ trace[i - 1].phase = "completed"
             /\ \E j \in At("transcodeAsset") : j < i - 1
    /\ At("transcodeAsset") # {}
          => \A i \in At("exportAsset") :
                /\ trace[i].arg = TranscodedAssetId
                /\ trace[i].arg # ImportedAssetId
                /\ trace[i - 1] = Event("getAsset", TranscodedAssetId)
                /\ curAsset.id = TranscodedAssetId

\* A run transcoded the imported asset and requested the export of the new
\* asset.
C24_Witness ==
    /\ proc = "done" /\ outcome.kind = "return"
    /\ Cardinality(At("transcodeAsset")) = 1
    /\ \E i \in At("exportAsset") : trace[i].arg = TranscodedAssetId
    /\ curAsset.id = TranscodedAssetId

(***************************************************************************)
(* Further properties of the bitrate planner (checked under SpecPlanner).  *)
(***************************************************************************)

\* C22: makeProfile is total: for every asset, also one without a video track
\* (bitrate 1, width 0 and height 0 by default), and every desiredBitrate it
\* returns a profile of one of the three tiers, with fps 0 and with the
\* desiredBitrate argument as its bitrate.
C22_MakeProfileTotal ==
    /\ \A d \in DesiredBitrates :
          LET p == makeProfile(inAsset, d)
          IN /\ p.name \in {"low-bitrate", "480p", "720p"}
             /\ p.fps = 0
             /\ p.bitrate = d
             /\ p.width \in Nat /\ p.height \in Nat
    /\ profileRes # NoProfile
          => /\ profileRes.fps = 0
             /\ profileRes.bitrate \in DesiredBitrates
             /\ HasNoTrack("video")
                   => /\ profileRes.name = "low-bitrate"
                      /\ profileRes.width = 0 /\ profileRes.height = 0

\* makeProfile returned a profile for an asset without a video track.
C22_Witness ==
    /\ HasNoTrack("video") /\ ~inAsset.hasTracks
    /\ profileRes.name = "low-bitrate"
    /\ profileRes.bitrate = 400000
    /\ profileRes.fps = 0

\* C23: when makeProfile picks the '480p' or the '720p' tier for a bitrate that
\* getDesiredBitrate produced, the profile's width and height do not exceed
\* the width and height of the source video track.
C23_TiersDownscale ==
    \A b \in BitrateValues \cup {0, 1}, w \in {0, 640, 854, 1280, 1920, 2560},
       h \in {0, 360, 480, 720, 1080, 1440} :
        (/\ checkRes.kind = "return"
         /\ checkRes.desiredProfile.name \in {"480p", "720p"}
         /\ ProfileInputs(b, w, h))
        => /\ checkRes.desiredProfile.height <= h
           /\ checkRes.desiredProfile.width <= w

\* C27: when getDesiredBitrate returns a number d for an asset with size >
\* sizeLimit > 0, video bitrate v and audio bitrate a, then minBitrate <= d < v
\* and (d + a) * size <= (v + a) * sizeLimit.  As d + a is an integer the last
\* inequality is d + a <= floor((v + a) * sizeLimit / size).
C27_ReturnedBitrateFits ==
    \A v \in BitrateValues, a \in BitrateValues \cup {0} :
        (/\ bitrateRes.kind = "number"
         /\ GivenSize > GivenSizeLimit /\ GivenSizeLimit > 0
         /\ VideoBitrateIs(v) /\ AudioBitrateIs(a))
        => /\ GivenMinBitrate <= bitrateRes.value
           /\ bitrateRes.value < v
           /\ bitrateRes.value + a
                <= MulDivMod(v + a, GivenSizeLimit, GivenSize)[1]

(***************************************************************************)
(* Properties of the contract, getMintedNftInfo and switchOrAddChain       *)
(* (checked under SpecWeb3).                                               *)
(***************************************************************************)

\* C21: mint(owner, tokenURI) of the default contract succeeds only when the
\* owner is the sender of the transaction.  A call with another owner reverts
\* and leaves the token counter, the owners and the token URIs as they were
\* and emits no Mint event; a call for the sender itself creates the next
\* token for the sender with the URI given and emits one Mint event.
C21_MintOnlyForSender ==
    [][lastTx'.nonce # lastTx.nonce
         => IF lastTx'.owner # lastTx'.sender
            THEN /\ lastTx'.reverted
                 /\ videoNft' = videoNft
                 /\ mintLog' = mintLog
            ELSE /\ ~lastTx'.reverted
                 /\ videoNft'.tokenIds = videoNft.tokenIds + 1
                 /\ lastTx'.returned = videoNft'.tokenIds
                 /\ videoNft'.owners[videoNft'.tokenIds] = lastTx'.sender
                 /\ videoNft'.tokenURIs[videoNft'.tokenIds] = lastTx'.tokenURI
                 /\ Len(mintLog') = Len(mintLog) + 1]_vars

\* After one token was minted, a mint for another account was reverted.
C21_Witness ==
    /\ lastTx.nonce = 2
    /\ lastTx.reverted
    /\ lastTx.owner # lastTx.sender
    /\ videoNft.tokenIds = 1
    /\ Len(mintLog) = 1

\* The arguments of the first Mint event of the receipt the call received.
ReceivedMintArgs ==
    LET evs == nftInfo.receipt.events
    IN IF \A i \in 1..Len(evs) : evs[i].event # "Mint" THEN <<>>
       ELSE evs[CHOOSE i \in 1..Len(evs) :
                  /\ evs[i].event = "Mint"
                  /\ \A j \in 1..(i - 1) : evs[j].event # "Mint"].args

Returned == nftInfo.pc = "done" /\ nftInfo.result.kind = "return"

\* C25: getMintedNftInfo returns only after the receipt arrived; the tokenId
\* it returns is the fourth argument of the receipt's Mint event when the
\* receipt has a Mint event with more than three arguments, and undefined
\* otherwise; the opensea field is present if and only if the chain of the
\* Web3 instance is a built-in chain (137 or 80001, both with OpenSea
\* parameters).
C25_TokenIdFromMintEvent ==
    /\ nftInfo.pc = "txWait" => ~("result" \in DOMAIN nftInfo)
    /\ Returned
         => /\ nftInfo.result.value.contractAddress = nftInfo.receipt.to
            /\ nftInfo.result.value.tokenId =
                 (IF Len(ReceivedMintArgs) > 3 THEN ReceivedMintArgs[4] ELSE Undef)
            /\ nftInfo.result.value.hasOpensea
                 <=> ChainNumber(web3.chainId) \in {137, 80001}

\* On Polygon Testnet, given as a number, the info of a receipt with two Mint
\* events carries the token ID of the first and the opensea field.
C25_Witness ==
    /\ Returned
    /\ ChainNumber(web3.chainId) = 80001
    /\ nftInfo.receipt.events = <<MintEvOf(1), MintEvOf(2)>>
    /\ nftInfo.result.value.tokenId = 1
    /\ nftInfo.result.value.hasOpensea

\* The number of requests of a method that switchOrAddChain has sent.
Requested(method) ==
    Cardinality({i \in 1..Len(wallet.requests) : wallet.requests[i] = method})

SwitchFailedWith4902 ==
    "code" \in DOMAIN wallet.switchErr /\ wallet.switchErr.code = 4902

\* C26 as stated: switchOrAddChain returns {added: false} without requesting
\* wallet_addEthereumChain when the switch succeeds; when the switch fails
\* with code 4902 it requests addChain exactly once and returns {added: true};
\* when the switch fails with another error it rethrows that error and never
\* requests addChain.
C26_Original ==
    wallet.pc = "done"
        => IF wallet.switchErr = NoResult
           THEN /\ wallet.result = [kind |-> "return", added |-> FALSE]
                /\ Requested("wallet_addEthereumChain") = 0
           ELSE IF SwitchFailedWith4902
           THEN /\ Requested("wallet_addEthereumChain") = 1
                /\ wallet.result = [kind |-> "return", added |-> TRUE]
           ELSE /\ wallet.result = wallet.switchErr
                /\ Requested("wallet_addEthereumChain") = 0

\* C26 as amended: as stated, except that after a switch that failed with
\* code 4902 and its one addChain request, switchOrAddChain returns
\* {added: true} when the add request succeeds and rejects with the error of
\* the add request when it fails.  The switch is requested at most once.
C26_SwitchOrAdd ==
    /\ Requested("wallet_switchEthereumChain") <= 1
    /\ wallet.pc = "add"
          => SwitchFailedWith4902 /\ Requested("wallet_addEthereumChain") = 1
    /\ wallet.pc = "done"
          => IF wallet.switchErr = NoResult
             THEN /\ wallet.result = [kind |-> "return", added |-> FALSE]
                  /\ Requested("wallet_addEthereumChain") = 0
             ELSE IF SwitchFailedWith4902
             THEN /\ Requested("wallet_addEthereumChain") = 1
                  /\ IF wallet.addErr = NoResult
                     THEN wallet.result = [kind |-> "return", added |-> TRUE]
                     ELSE wallet.result = wallet.addErr
             ELSE /\ wallet.result = wallet.switchErr
                  /\ Requested("wallet_addEthereumChain") = 0

\* The switch failed with code 4902 and the user rejected the add request:
\* switchOrAddChain threw the error of the add request.
C26_Witness ==
    /\ wallet.pc = "done"
    /\ SwitchFailedWith4902
    /\ wallet.requests = <<"wallet_switchEthereumChain", "wallet_addEthereumChain">>
    /\ wallet.result = WalletError(4001)

\* C30: on a built-in chain with OpenSea parameters, getMintedNftInfo returns
\* opensea.contractUrl always, and opensea.tokenUrl for every receipt whose
\* Mint event carries a token ID, 0 included: tokenUrl is undefined only when
\* tokenId is undefined.
C30_TokenUrlForEveryId ==
    (Returned /\ ChainNumber(web3.chainId) \in {137, 80001})
        => /\ nftInfo.result.value.hasOpensea
           /\ nftInfo.result.value.contractUrl # NoUrl
           /\ nftInfo.result.value.tokenUrl = NoUrl
                <=> nftInfo.result.value.tokenId = Undef

====
